---- MODULE Spec2Model ----
(***************************************************************************)
(* Follow-up orchestration and delivery-reliability engine.                *)
(*                                                                         *)
(* The state machines of this module:                                      *)
(*   SpecRetry   - the with_retry_logging wrapper and the RetryLogger      *)
(*                 ledger (app/services/retry_logger.py);                  *)
(*   SpecService - EmailService: send_email, the primary queue and its     *)
(*                 processor, the retry queue and its processor            *)
(*                 (app/services/email_service.py);                        *)
(*   SpecEmail   - SpecService together with the second primary-queue      *)
(*                 processor (app/jobs/email_scheduler.py);                *)
(*   SpecCycle   - one orchestration cycle, run_followups, with its        *)
(*                 fan-out of send_followup dispatches                     *)
(*                 (app/jobs/scheduler_service.py, followup_service.py).   *)
(*   SpecGuard   - the lead loop of run_followups, scorer as collaborator; *)
(*   SpecScored  - the lead loop with priority_scorer.compute as written   *)
(*                 (app/models/priority.py);                               *)
(*   SpecThrottle - run_followups cycle after cycle;                       *)
(*   SpecFollowup - a cycle and process_followup_queue over the followups  *)
(*                 table (app/jobs/followup_service.py);                   *)
(*   SpecSend    - send_email alone;                                       *)
(*   SpecCore    - the with_retry decorator (app/core/decorators.py);      *)
(*   SpecRuns    - the triggers of the two follow-up jobs                  *)
(*                 (app/api/messaging.py, followup_service.start);         *)
(*   SpecDrain   - one run of _process_email_queue over a filled queue;    *)
(*   SpecConcurrent - wrapped operations as concurrent tasks;              *)
(*   SpecBatch   - BatchProcessor.process_batch, concurrent flushes        *)
(*                 (app/services/batch_processor.py);                      *)
(*   SpecLead    - runs of process_lead_task for one lead and date         *)
(*                 (app/scheduler.py, app/services/supabase_service.py);   *)
(*   SpecLimiter - the semaphore around the gateway call of                *)
(*                 _send_via_gmail;                                        *)
(*   SpecHealth  - the email health endpoint                               *)
(*                 (app/api/endpoints/monitor.py);                         *)
(*   SpecScore   - priority_scorer.compute lead after lead                 *)
(*                 (app/models/priority.py);                               *)
(*   SpecQueueHours - SpecFollowup with the business hours ending during   *)
(*                 a run of process_followup_queue;                        *)
(*   SpecRetryDrain - the retry job of EmailService firing again and       *)
(*                 again after the callers' sends, with fairness;          *)
(*   SpecDaily   - run_daily_followups: the chord of lead tasks, its       *)
(*                 body flush_and_summary and its error callback           *)
(*                 (app/scheduler.py).                                     *)
(*                                                                         *)
(* The lead store, the gateway and the clock are collaborators: each call  *)
(* to them returns or raises, chosen nondeterministically.                 *)
(***************************************************************************)
EXTENDS Integers, Sequences, FiniteSets, TLC

\* ------------------------------------------------------------------ bounds

\* number of wrapper invocation slots (callers) followed
NInv == 2

\* number of invocations made in one behaviour of SpecRetry
MaxCalls == 3

\* largest max_retries a decorator is configured with in SpecRetry
MaxRetriesBound == 3

\* number of emails handed to EmailService
NEmails == 1

\* most calls the gateway fails before it recovers
MaxGatewayFails == 2

\* runs of each primary-queue processor in one behaviour
MaxQueueRuns == 1

\* runs of the retry-queue processor in one behaviour
MaxRetryRuns == 3

\* most runs of one job started in one behaviour
MaxRuns == 2

\* most emails in the primary queue when a run of its processor starts
MaxQueued == 2

\* most items in the redis list when the flushes start
MaxItems == 3

\* largest chunk_size of a BatchProcessor (500 by default, scaled down)
MaxChunk == 2

\* runs of process_batch in one behaviour
NFlush == 2

\* most failures of the sheet and of redis in one behaviour
MaxWriteFails == 3

\* runs of process_lead_task for the one lead and date of the model
NTask == 2

\* most calls of the store or of redis that fail for the lead tasks
MaxTaskFails == 1

\* settings.RATE_LIMIT_PER_MINUTE (60 in config_manager.py:82), scaled below
\* the number of concurrent senders
RATE_LIMIT_PER_MINUTE == 2

\* concurrent calls of _send_via_gmail
NSenders == 3

\* most conversation rows of a lead inside the engagement window
MaxMessages == 2

\* settings.PRIORITY_RECENCY_HALF_LIFE_DAYS
PRIORITY_RECENCY_HALF_LIFE_DAYS == 7

\* settings.PRIORITY_RECENCY_WEIGHT, PRIORITY_ENGAGEMENT_WEIGHT and
\* PRIORITY_CLASS_WEIGHT (0.5, 0.3, 0.2), in ten-thousandths
PRIORITY_RECENCY_WEIGHT == 5000

PRIORITY_ENGAGEMENT_WEIGHT == 3000

PRIORITY_CLASS_WEIGHT == 2000

\* most emails sent and most emails failed when the health endpoint is read
MaxSent == 11

MaxFailed == 2

\* the caps of the health endpoint on the primary and on the retry queue
\* (monitor.py:63-64)
QUEUE_CAP == 1000

RETRY_CAP == 100

\* settings.EMAIL_BATCH_SIZE (50 in config_manager.py:43), scaled to the
\* number of emails of the model
EMAIL_BATCH_SIZE == 1

\* settings.EMAIL_START_HOUR, settings.EMAIL_END_HOUR
EMAIL_START_HOUR == 9

EMAIL_END_HOUR == 17

\* the instants <<hour, weekday>> (Monday = 0) the clock is read at: the
\* last hour of the window, the hour after it, and the same hour on a Saturday
Instants == {<<17, 0>>, <<18, 0>>, <<17, 5>>}

Emails == 1..NEmails

Flushes == 1..NFlush

Tasks == 1..NTask

Senders == 1..NSenders

Invs == 1..NInv

\* the active leads of the store; the dispatch of a lead is the wrapper
\* invocation of the same number
Leads == Invs

\* addresses the gateway is asked to deliver to: the emails handed to
\* send_email directly and the email address of each lead
Recipients == Emails \cup Leads

Jobs == {"send_email", "send_followup"}

\* exceptions an operation may raise
Errors == {"ValueError", "RuntimeError"}

\* values an operation may return (send_email and send_followup return bool)
Values == {"True", "False"}

VARIABLES
    \* RetryLogger (retry_logger.py:12-15)
    retry_counts, failure_counts, last_failures,
    \* one with_retry_logging wrapper invocation per slot (retry_logger.py:64-85)
    w_pc, w_job, w_max, w_attempt, w_last_error, w_result, w_raised,
    \* what the caller and the operation saw, per invocation (observation only)
    w_errs, w_value, w_trace, w_base, w_end, n_calls,
    \* the clock, read through datetime.now()
    hour, weekday,
    \* EmailService (email_service.py:55-69)
    gmail_service, email_queue, retry_queue, metrics,
    \* the gateway: calls it still fails before it recovers, whether it is
    \* down for good, and per email what it has been asked and has accepted
    gw_left, gw_down, gw_attempts, gw_accepted,
    \* the direct send_email call made for each email (observation only)
    call_info,
    \* email_scheduler._process_queue (email_scheduler.py:15-74)
    pq_pc, pq_i, pq_size, pq_results, pq_runs,
    \* EmailService._process_email_queue: runs made (email_service.py:125-136)
    eq_runs,
    \* EmailService._process_retry_queue (email_service.py:138-166)
    rp_pc, rp_snapshot, rp_k, rp_runs,
    \* run_followups (scheduler_service.py:15-57): where it is, the leads it
    \* fetched, the lead it evaluates, the leads it created a task for
    c_pc, c_leads, c_idx, c_tasks,
    \* how its calls of the store went, and the exception it ended with
    c_fetch, c_error,
    \* the store: seconds since the latest conversation of each lead (-1: none)
    last_contact,
    \* FollowupService.metrics (followup_service.py:20-27)
    f_metrics,
    \* one with_retry wrapper invocation (core/decorators.py:18-30): where it
    \* is, the operation, max_retries, the loop variable, last_error, what it
    \* returned or raised, the events in order, and invocations made so far
    cr_pc, cr_op, cr_max, cr_attempt, cr_last_error, cr_out, cr_trace, cr_calls,
    \* the prometheus Counter passed as error_counter
    error_counter,
    \* the runs of run_followups and of process_followup_queue that have been
    \* started, each with the await it has reached
    job_runs,
    \* what the throttle test of run_followups (scheduler_service.py:29-33)
    \* did with each lead of the cycle: the `last` it read and where it went
    c_guard,
    \* the store's followups table, the row of each lead: none, queued or sent
    \* (supabase_client.py:202-230)
    followups,
    \* process_followup_queue (followup_service.py:93-115): where it is, the
    \* rows it fetched, the row it is at, and the runs made so far
    q_pc, q_snapshot, q_k, q_runs,
    \* the durable list SHEETS_BATCH_KEY in redis, and chunk_size of the
    \* BatchProcessors (batch_processor.py:29-32)
    b_queue, chunk_size,
    \* each run of process_batch (batch_processor.py:38-70): where it is,
    \* cell_list, every item it popped, the offset i of the chunk it is at,
    \* the attempt of with_retry on that chunk, the offsets of the chunks
    \* update_cells was called with, the chunks it wrote, the exception it
    \* raised
    b_pc, b_cells, b_popped, b_i, b_att, b_tried, b_written, b_error,
    \* failures the sheet and redis have left to give, and the prometheus
    \* counters redis_errors and sheets_errors
    b_fails_left, redis_errors, sheets_errors,
    \* each run of process_lead_task (scheduler.py:25-57): where it is; the
    \* rows of followup_logs for the lead and the date; the counter
    \* task_errors; failures the store and redis have left to give
    t_pc, followup_logs, task_errors, t_fails_left,
    \* the semaphore _rate_limiter of the email service (email_service.py:62):
    \* its value, and where each call of _send_via_gmail is
    rl_value, rl_pc,
    \* EmailMetrics.current_queue_size and current_retry_size as
    \* _update_metrics last set them (email_service.py:119-123), and the last
    \* answer of get_email_health (monitor.py:75-102)
    current_queue_size, current_retry_size, h_report,
    \* a call of PriorityScorer.compute (priority.py:43-60): where it is, the
    \* lead and its conversations, what the store call of line 45 hands back,
    \* and the sub-scores and score computed
    p_pc, p_lead, p_recent, p_out,
    d_pc, d_runs, d_logged

ledgerVars == <<retry_counts, failure_counts, last_failures>>
wrapperVars == <<w_pc, w_job, w_max, w_attempt, w_last_error, w_result, w_raised>>
obsVars == <<w_errs, w_value, w_trace, w_base, w_end, n_calls>>

clockVars == <<hour, weekday>>
serviceVars == <<gmail_service, email_queue, retry_queue, metrics>>
gatewayVars == <<gw_left, gw_down, gw_attempts, gw_accepted>>
pqVars == <<pq_pc, pq_i, pq_size, pq_results, pq_runs>>
rpVars == <<rp_pc, rp_snapshot, rp_k, rp_runs>>
emailVars == <<clockVars, serviceVars, gatewayVars, call_info, pqVars, eq_runs, rpVars>>
retryVars == <<ledgerVars, wrapperVars, obsVars>>

cycleVars == <<c_pc, c_leads, c_idx, c_tasks, c_fetch, c_error, last_contact, f_metrics>>

coreVars == <<cr_pc, cr_op, cr_max, cr_attempt, cr_last_error, cr_out, cr_trace,
              cr_calls, error_counter>>

\* the variables of the machines that SpecRetry, SpecService, SpecEmail and
\* SpecCycle leave alone
queueVars == <<followups, q_pc, q_snapshot, q_k, q_runs>>

batchVars == <<b_queue, chunk_size, b_pc, b_cells, b_popped, b_i, b_att, b_tried,
               b_written, b_error, b_fails_left, redis_errors, sheets_errors>>

\* the variables of the batch writer and of the lead tasks
leadVars == <<t_pc, followup_logs, task_errors, t_fails_left>>

limiterVars == <<rl_value, rl_pc>>

healthVars == <<current_queue_size, current_retry_size, h_report>>

scoreVars == <<p_pc, p_lead, p_recent, p_out>>

\* the variables of the daily run
dailyVars == <<d_pc, d_runs, d_logged>>

lastVars == <<scoreVars, dailyVars>>

restVars == <<leadVars, limiterVars, healthVars, lastVars>>

laterVars == <<batchVars, restVars>>

extVars == <<coreVars, job_runs, c_guard, queueVars, laterVars>>

vars == <<retryVars, emailVars, cycleVars, extVars>>

\* ------------------------------------------------------------ RetryLogger

NoFailure == [final_attempt |-> 0, error_type |-> "None", total_failures |-> 0]

\* RetryLogger.__init__: three empty dicts; dict.get(job, 0) reads 0
InitLedger ==
    /\ retry_counts = [j \in Jobs |-> 0]
    /\ failure_counts = [j \in Jobs |-> 0]
    /\ last_failures = [j \in Jobs |-> NoFailure]

\* RetryLogger.log_retry: retry_counts[job] = retry_counts.get(job, 0) + 1
log_retry(counts, job_name) == [counts EXCEPT ![job_name] = @ + 1]

\* RetryLogger.log_failure: failure_counts[job] = failure_counts.get(job, 0) + 1
log_failure(counts, job_name) == [counts EXCEPT ![job_name] = @ + 1]

\* RetryLogger.log_failure: last_failures[job] = failure_data
failure_data(counts, job_name, error, final_attempt) ==
    [final_attempt |-> final_attempt, error_type |-> error,
     total_failures |-> counts[job_name]]

\* RetryLogger.get_stats, as the caller of a wrapped operation reads it
get_stats == [retry_counts |-> retry_counts, failure_counts |-> failure_counts]

\* ----------------------------------------------------- with_retry_logging

InitWrapper ==
    /\ w_pc = [i \in Invs |-> "idle"]
    /\ w_job = [i \in Invs |-> "send_email"]
    /\ w_max = [i \in Invs |-> 0]
    /\ w_attempt = [i \in Invs |-> 0]
    /\ w_last_error = [i \in Invs |-> "None"]
    /\ w_result = [i \in Invs |-> "None"]
    /\ w_raised = [i \in Invs |-> "None"]
    /\ w_errs = [i \in Invs |-> <<>>]
    /\ w_value = [i \in Invs |-> "None"]
    /\ w_trace = [i \in Invs |-> <<>>]
    /\ w_base = [i \in Invs |-> [retry_counts |-> [j \in Jobs |-> 0],
                                 failure_counts |-> [j \in Jobs |-> 0]]]
    /\ w_end = [i \in Invs |-> [retry_counts |-> [j \in Jobs |-> 0],
                                failure_counts |-> [j \in Jobs |-> 0]]]
    /\ n_calls = 0

\* the wrapper is entered: attempt = 0, last_error = None
WrapperEnter(i, job, max_retries) ==
    /\ w_pc[i] \in {"idle", "returned", "raised"}
    /\ w_pc' = [w_pc EXCEPT ![i] = "loop"]
    /\ w_job' = [w_job EXCEPT ![i] = job]
    /\ w_max' = [w_max EXCEPT ![i] = max_retries]
    /\ w_attempt' = [w_attempt EXCEPT ![i] = 0]
    /\ w_last_error' = [w_last_error EXCEPT ![i] = "None"]
    /\ w_result' = [w_result EXCEPT ![i] = "None"]
    /\ w_raised' = [w_raised EXCEPT ![i] = "None"]
    /\ w_errs' = [w_errs EXCEPT ![i] = <<>>]
    /\ w_value' = [w_value EXCEPT ![i] = "None"]
    /\ w_base' = [w_base EXCEPT ![i] = get_stats]
    /\ w_end' = [w_end EXCEPT ![i] = get_stats]
    /\ w_trace' = [w_trace EXCEPT ![i] = <<"call">>]
    /\ UNCHANGED ledgerVars

\* while attempt < max_retries: attempt += 1; await func(...)
WrapperAttempt(i) ==
    /\ w_pc[i] = "loop"
    /\ w_attempt[i] < w_max[i]
    /\ w_attempt' = [w_attempt EXCEPT ![i] = @ + 1]
    /\ w_pc' = [w_pc EXCEPT ![i] = "await"]
    /\ w_trace' = [w_trace EXCEPT ![i] = Append(@, "attempt")]
    /\ UNCHANGED <<w_job, w_max, w_last_error, w_result, w_raised,
                   w_errs, w_value, w_base, w_end, ledgerVars>>

\* the loop ends without a return or a raise: raise last_error, which is
\* None when no attempt was made (Python then raises TypeError)
WrapperFallThrough(i) ==
    /\ w_pc[i] = "loop"
    /\ ~(w_attempt[i] < w_max[i])
    /\ w_pc' = [w_pc EXCEPT ![i] = "raised"]
    /\ w_raised' = [w_raised EXCEPT ![i] =
            IF w_last_error[i] = "None" THEN "TypeError" ELSE w_last_error[i]]
    /\ w_trace' = [w_trace EXCEPT ![i] = Append(@, "raise")]
    /\ w_end' = [w_end EXCEPT ![i] = get_stats]
    /\ UNCHANGED <<w_job, w_max, w_attempt, w_last_error, w_result,
                   w_errs, w_value, w_base, ledgerVars>>

\* return await func(...): the operation returned v
WrapperReturn(i, v) ==
    /\ w_pc[i] = "await"
    /\ w_pc' = [w_pc EXCEPT ![i] = "returned"]
    /\ w_result' = [w_result EXCEPT ![i] = v]
    /\ w_trace' = [w_trace EXCEPT ![i] = Append(@, "return")]
    /\ w_end' = [w_end EXCEPT ![i] = get_stats]
    /\ UNCHANGED <<w_job, w_max, w_attempt, w_last_error, w_raised, ledgerVars>>

ShouldRetryOffByOne(attempt, max_retries) == attempt + 1 < max_retries

ShouldRetryAlways(attempt, max_retries) == attempt <= max_retries

\* if attempt < max_retries: log_retry, else: log_failure and raise
ShouldRetry(attempt, max_retries) == attempt < max_retries

\* the handler with the ledger read before the await: the counts written are
\* the ones the invocation saw when it was entered plus its own
WrapperExceptStale(i, e) ==
    /\ w_pc[i] = "await"
    /\ w_last_error' = [w_last_error EXCEPT ![i] = e]
    /\ IF ShouldRetry(w_attempt[i], w_max[i])
       THEN /\ retry_counts' = [retry_counts EXCEPT ![w_job[i]] =
                   w_base[i].retry_counts[w_job[i]] + w_attempt[i]]
            /\ w_pc' = [w_pc EXCEPT ![i] = "loop"]
            /\ w_trace' = [w_trace EXCEPT ![i] = @ \o <<"fail", "log_retry">>]
            /\ UNCHANGED <<failure_counts, last_failures, w_raised, w_end>>
       ELSE /\ failure_counts' = [failure_counts EXCEPT ![w_job[i]] =
                   w_base[i].failure_counts[w_job[i]] + 1]
            /\ last_failures' = [last_failures EXCEPT ![w_job[i]] =
                   failure_data(failure_counts', w_job[i], e, w_attempt[i])]
            /\ w_pc' = [w_pc EXCEPT ![i] = "raised"]
            /\ w_raised' = [w_raised EXCEPT ![i] = e]
            /\ w_trace' = [w_trace EXCEPT ![i] =
                   @ \o <<"fail", "log_failure", "raise">>]
            /\ w_end' = [w_end EXCEPT ![i] =
                   [retry_counts |-> retry_counts,
                    failure_counts |-> failure_counts']]
            /\ UNCHANGED retry_counts
    /\ UNCHANGED <<w_job, w_max, w_attempt, w_result>>

\* except Exception as e: the operation raised e
WrapperExcept(i, e) ==
    /\ w_pc[i] = "await"
    /\ w_last_error' = [w_last_error EXCEPT ![i] = e]
    /\ IF ShouldRetry(w_attempt[i], w_max[i])
       THEN /\ retry_counts' = log_retry(retry_counts, w_job[i])
            /\ w_pc' = [w_pc EXCEPT ![i] = "loop"]
            /\ w_trace' = [w_trace EXCEPT ![i] = @ \o <<"fail", "log_retry">>]
            /\ UNCHANGED <<failure_counts, last_failures, w_raised, w_end>>
       ELSE /\ failure_counts' = log_failure(failure_counts, w_job[i])
            /\ last_failures' = [last_failures EXCEPT ![w_job[i]] =
                   failure_data(failure_counts', w_job[i], e, w_attempt[i])]
            /\ w_pc' = [w_pc EXCEPT ![i] = "raised"]
            /\ w_raised' = [w_raised EXCEPT ![i] = e]
            /\ w_trace' = [w_trace EXCEPT ![i] =
                   @ \o <<"fail", "log_failure", "raise">>]
            /\ w_end' = [w_end EXCEPT ![i] =
                   [retry_counts |-> retry_counts,
                    failure_counts |-> failure_counts']]
            /\ UNCHANGED retry_counts
    /\ UNCHANGED <<w_job, w_max, w_attempt, w_result>>

\* the invocation has returned or raised
Finished(i) == w_pc[i] \in {"returned", "raised"}

\* ------------------------------------------------------------ EmailService

\* EmailService._max_retries
EmailMaxRetries == 3

NoCall == [made |-> FALSE, sending |-> FALSE, k |-> 0, result |-> "None",
           attempts |-> 0]

\* EmailService.__init__: both queues empty, the metrics at 0, and
\* gmail_service = None (line 69 resets what _initialize_gmail_service set)
InitService ==
    /\ gmail_service = FALSE
    /\ email_queue = <<>>
    /\ retry_queue = <<>>
    /\ metrics = [total_sent |-> 0, total_failed |-> 0, total_retried |-> 0]

InitProcessors ==
    /\ pq_pc = "idle"
    /\ pq_i = 0
    /\ pq_size = 0
    /\ pq_results = [processed |-> 0, sent |-> 0, failed |-> 0]
    /\ pq_runs = 0
    /\ rp_pc = "idle"
    /\ rp_snapshot = <<>>
    /\ rp_k = 0
    /\ rp_runs = 0
    /\ eq_runs = 0

\* no orchestration cycle has run, and no lead has a conversation
CycleIdle ==
    /\ c_pc = "idle"
    /\ c_leads = <<>>
    /\ c_idx = 0
    /\ c_tasks = <<>>
    /\ c_fetch = "none"
    /\ c_error = "None"
    /\ last_contact = [l \in Leads |-> -1]
    /\ f_metrics = [total_followups |-> 0, successful_followups |-> 0,
                    failed_followups |-> 0, queued_followups |-> 0]

\* the throttle test has not been reached for the lead
NotEvaluated == [went |-> "none", last |-> -1]

\* process_followup_queue has not run
QueueIdle ==
    /\ q_pc = "idle"
    /\ q_snapshot = <<>>
    /\ q_k = 0
    /\ q_runs = 0

\* no run of process_batch has started
FlushesIdle ==
    /\ b_pc = [f \in Flushes |-> "idle"]
    /\ b_cells = [f \in Flushes |-> <<>>]
    /\ b_popped = [f \in Flushes |-> <<>>]
    /\ b_i = [f \in Flushes |-> 0]
    /\ b_att = [f \in Flushes |-> 0]
    /\ b_tried = [f \in Flushes |-> {}]
    /\ b_written = [f \in Flushes |-> <<>>]
    /\ b_error = [f \in Flushes |-> "None"]
    /\ redis_errors = 0
    /\ sheets_errors = 0

\* the batch writer at rest over an empty list
BatchIdle ==
    /\ b_queue = <<>>
    /\ chunk_size = 1
    /\ b_fails_left = 0
    /\ FlushesIdle

\* no run of process_lead_task has started and nothing is logged
LeadIdle ==
    /\ t_pc = [r \in Tasks |-> "idle"]
    /\ followup_logs = 0
    /\ task_errors = 0
    /\ t_fails_left = 0

\* the semaphore as __init__ creates it, no call of _send_via_gmail made
LimiterIdle ==
    /\ rl_value = RATE_LIMIT_PER_MINUTE
    /\ rl_pc = [s \in Senders |-> "idle"]

NoReport == [status |-> "None", rate_num |-> 0, rate_den |-> 1, main_size |-> 0,
             retry_size |-> 0]

\* EmailMetrics.__init__ (email_service.py:35-36), the endpoint not read yet
HealthIdle ==
    /\ current_queue_size = 0
    /\ current_retry_size = 0
    /\ h_report = NoReport

NoLead == [days |-> -1, contacted |-> FALSE, inbound |-> 0, total |-> 0, cls |-> ""]

NoScore == [raises |-> FALSE, r_num |-> 0, e_num |-> 0, e_den |-> 1, c |-> 0, score |-> 0]

\* compute has not been called
ScoreIdle ==
    /\ p_pc = "idle"
    /\ p_lead = NoLead
    /\ p_recent = "None"
    /\ p_out = NoScore

\* run_daily_followups was never called, no lead has a row of today
DailyIdle ==
    /\ d_pc = "idle"
    /\ d_runs = 0
    /\ d_logged = {}

LastIdle == ScoreIdle /\ DailyIdle

RestIdle == LeadIdle /\ LimiterIdle /\ HealthIdle /\ LastIdle

LaterIdle == BatchIdle /\ RestIdle

\* no with_retry invocation has been made
CoreIdle ==
    /\ cr_pc = "idle"
    /\ cr_op = "None"
    /\ cr_max = 0
    /\ cr_attempt = 0
    /\ cr_last_error = "None"
    /\ cr_out = "None"
    /\ cr_trace = <<>>
    /\ cr_calls = 0
    /\ error_counter = 0

\* the machines a specification does not run, at rest
JobsIdle ==
    /\ CoreIdle
    /\ job_runs = [j \in {"run_followups", "process_followup_queue"} |-> <<>>]
    /\ c_guard = [l \in Leads |-> NotEvaluated]
    /\ followups = [l \in Leads |-> "none"]
    /\ QueueIdle

ExtIdle == JobsIdle /\ LaterIdle

\* the email machine at rest, as SpecRetry keeps it
EmailIdle ==
    /\ hour = 17
    /\ weekday = 0
    /\ InitService
    /\ InitProcessors
    /\ gw_left = 0
    /\ gw_down = FALSE
    /\ gw_attempts = [e \in Recipients |-> 0]
    /\ gw_accepted = [e \in Recipients |-> 0]
    /\ call_info = [e \in Emails |-> NoCall]

\* the part of the state send_email reads and writes
EState ==
    [q |-> email_queue, rq |-> retry_queue, m |-> metrics,
     left |-> gw_left, att |-> gw_attempts, acc |-> gw_accepted]

SetEState(st) ==
    /\ email_queue' = st.q
    /\ retry_queue' = st.rq
    /\ metrics' = st.m
    /\ gw_left' = st.left
    /\ gw_attempts' = st.att
    /\ gw_accepted' = st.acc

\* list.remove(x): the first element equal to x (ValueError, which both
\* processors catch, when there is none)
RECURSIVE RemoveFirst(_, _)
RemoveFirst(seq, x) ==
    IF seq = <<>> THEN <<>>
    ELSE IF Head(seq) = x THEN Tail(seq)
    ELSE <<Head(seq)>> \o RemoveFirst(Tail(seq), x)

\* an in-place update of the dict x, seen through the queue that holds it
RECURSIVE ReplaceFirst(_, _, _)
ReplaceFirst(seq, x, y) ==
    IF seq = <<>> THEN <<>>
    ELSE IF Head(seq) = x THEN <<y>> \o Tail(seq)
    ELSE <<Head(seq)>> \o ReplaceFirst(Tail(seq), x, y)

\* the hours of the window on any day of the week
InEmailWindowAnyDay == EMAIL_START_HOUR <= hour /\ hour <= EMAIL_END_HOUR

\* settings.EMAIL_START_HOUR <= current_hour <= settings.EMAIL_END_HOUR
\* and datetime.now().weekday() < 5
InEmailWindow == EMAIL_START_HOUR <= hour /\ hour <= EMAIL_END_HOUR /\ weekday < 5

\* the gateway call of _send_via_gmail: users().messages().send().execute()
GatewayAccepts(st) == ~gw_down /\ st.left = 0

\* _send_via_gmail: (False, ...) without a call when gmail_service is None;
\* otherwise one gateway call, True when it is accepted
send_via_gmail(st, e) ==
    IF ~gmail_service
    THEN [st |-> st, success |-> FALSE]
    ELSE [st |-> [st EXCEPT !.att[e] = @ + 1,
                            !.acc[e] = IF GatewayAccepts(st) THEN @ + 1 ELSE @,
                            !.left = IF @ > 0 THEN @ - 1 ELSE @],
          success |-> GatewayAccepts(st)]

\* the entry send_email appends to the retry queue
RetryEntry(data, schedule, retry_count) ==
    [email_data |-> [data EXCEPT !.schedule = schedule, !.retry_count = retry_count + 1],
     retry_count |-> retry_count]

\* the dict send_email appends to the primary queue: no schedule, no retry_count
QueueEntry(data) == [data EXCEPT !.schedule = FALSE, !.retry_count = 0]

\* the body of send_email (lines 265-342); data.body_ok is whether a body or a
\* template was given (_create_message raises ValueError otherwise)
send_email_body(st, data, schedule, retry_count) ==
    IF schedule /\ ~InEmailWindow
    THEN [st |-> [st EXCEPT !.q = Append(@, QueueEntry(data))], ret |-> TRUE]
    ELSE IF ~data.body_ok
    THEN [st |-> [st EXCEPT !.m.total_failed = @ + 1], ret |-> FALSE]
    ELSE LET g == send_via_gmail(st, data.to) IN
         IF ~g.success
         THEN IF retry_count < EmailMaxRetries
              THEN [st |-> [g.st EXCEPT
                               !.rq = Append(@, RetryEntry(data, schedule, retry_count)),
                               !.m.total_retried = @ + 1],
                    ret |-> FALSE]
              ELSE [st |-> [g.st EXCEPT !.m.total_failed = @ + 1], ret |-> FALSE]
         ELSE [st |-> [g.st EXCEPT !.m.total_sent = @ + 1], ret |-> TRUE]

\* send_email as callers see it, under @with_retry_logging(max_retries=3,
\* job_name="send_email"): the body catches every exception and returns False,
\* so the first attempt of the wrapper always returns and the ledger is left
\* as it was
send_email(st, data, schedule, retry_count) ==
    send_email_body(st, data, schedule, retry_count)

\* await self.send_email(**email_data) with a dict of the primary queue
send_queued(st, data) == send_email(st, data, FALSE, 0)

\* ---- environment

\* time passes
Tick ==
    /\ \E t \in Instants :
          /\ t # <<hour, weekday>>
          /\ hour' = t[1]
          /\ weekday' = t[2]
    /\ UNCHANGED <<serviceVars, gatewayVars, call_info, pqVars, eq_runs, rpVars,
                   retryVars, cycleVars, extVars>>

\* _initialize_gmail_service, called on the constructed service while it has
\* no client: it leaves gmail_service as it is without credentials, sets it
\* to the built client, or to None when building raises
InitializeGmailService ==
    /\ ~gmail_service
    /\ \E outcome \in {"no_credentials", "built", "raised"} :
          gmail_service' = CASE outcome = "no_credentials" -> gmail_service
                             [] outcome = "built" -> TRUE
                             [] outcome = "raised" -> FALSE
    /\ gmail_service' # gmail_service
    /\ UNCHANGED <<email_queue, retry_queue, metrics, clockVars, gatewayVars,
                   call_info, pqVars, eq_runs, rpVars, retryVars, cycleVars, extVars>>

\* ---- the operations of the service

\* send_email(to=e, ..., schedule=schedule), with a body or template given
\* or not
SendEmailWith(e, schedule, body_ok) ==
    /\ LET data == [to |-> e, body_ok |-> body_ok, schedule |-> FALSE,
                    retry_count |-> 0]
           r == send_email(EState, data, schedule, 0)
       IN /\ SetEState(r.st)
          /\ call_info' = [call_info EXCEPT ![e] =
                [made |-> TRUE,
                 sending |-> gmail_service /\ body_ok /\ ~gw_down
                             /\ ~(schedule /\ ~InEmailWindow),
                 k |-> gw_left,
                 result |-> IF r.ret THEN "True" ELSE "False",
                 attempts |-> r.st.att[e] - gw_attempts[e]]]
    /\ UNCHANGED <<gmail_service, gw_down, clockVars, pqVars, eq_runs, rpVars,
                   retryVars, cycleVars, extVars>>

\* a caller hands email e to send_email(to=e, ..., schedule=...)
SendEmail(e) ==
    /\ ~call_info[e].made
    /\ \E schedule \in BOOLEAN, body_ok \in BOOLEAN :
          SendEmailWith(e, schedule, body_ok)

\* the loop over the list itself instead of the copy email_queue[:]: each
\* removal shifts the list under the iterator, which skips the next dict
RECURSIVE process_email_queueLive(_, _)
process_email_queueLive(st, snapshot) ==
    IF snapshot = <<>> THEN st
    ELSE LET r == send_queued(st, Head(snapshot))
             after == [r.st EXCEPT !.q = RemoveFirst(@, Head(snapshot))]
         IN process_email_queueLive(after, IF Len(snapshot) >= 2
                                           THEN Tail(Tail(snapshot)) ELSE <<>>)

\* for email_data in self.email_queue[:]: await send_email; remove
RECURSIVE process_email_queue(_, _)
process_email_queue(st, snapshot) ==
    IF snapshot = <<>> THEN st
    ELSE LET r == send_queued(st, Head(snapshot))
             after == [r.st EXCEPT !.q = RemoveFirst(@, Head(snapshot))]
         IN process_email_queue(after, Tail(snapshot))

\* EmailService._process_email_queue, fired by the cron trigger mon-fri,
\* hours EMAIL_START_HOUR-EMAIL_END_HOUR; send_email never suspends, so the
\* whole run is one step of the event loop
ProcessEmailQueue ==
    /\ InEmailWindow
    /\ email_queue # <<>>
    /\ eq_runs < MaxQueueRuns
    /\ eq_runs' = eq_runs + 1
    /\ SetEState(process_email_queue(EState, email_queue))
    /\ UNCHANGED <<gmail_service, gw_down, clockVars, call_info, pqVars, rpVars,
                   retryVars, cycleVars, extVars>>

\* email_scheduler._process_queue, fired by its own cron trigger at the same
\* times: queue_size is read once
ProcessQueueStart ==
    /\ InEmailWindow
    /\ pq_pc = "idle"
    /\ pq_runs < MaxQueueRuns
    /\ email_queue # <<>>
    /\ pq_pc' = "batch"
    /\ pq_i' = 0
    /\ pq_size' = Len(email_queue)
    /\ pq_results' = [processed |-> 0, sent |-> 0, failed |-> 0]
    /\ pq_runs' = pq_runs + 1
    /\ UNCHANGED <<serviceVars, gatewayVars, clockVars, call_info, eq_runs, rpVars,
                   retryVars, cycleVars, extVars>>

\* email_service.email_queue[i:i + batch_size], as Python slices
Slice(seq, from, to) ==
    SubSeq(seq, from + 1, IF to < Len(seq) THEN to ELSE Len(seq))

\* the tasks of one batch under asyncio.gather: each sends, none removes
RECURSIVE send_batch(_, _, _)
send_batch(st, batch, results) ==
    IF batch = <<>> THEN [st |-> st, results |-> results]
    ELSE LET r == send_queued(st, Head(batch)) IN
         send_batch(r.st, Tail(batch),
                    [processed |-> results.processed + 1,
                     sent |-> results.sent + (IF r.ret THEN 1 ELSE 0),
                     failed |-> results.failed + (IF r.ret THEN 0 ELSE 1)])

\* one batch of _process_queue, then the sleep before the next batch
ProcessQueueBatch ==
    /\ pq_pc = "batch"
    /\ LET batch == Slice(email_queue, pq_i, pq_i + EMAIL_BATCH_SIZE)
           r == send_batch(EState, batch, pq_results)
       IN /\ SetEState(r.st)
          /\ pq_results' = r.results
    /\ IF pq_i + EMAIL_BATCH_SIZE < pq_size
       THEN /\ pq_i' = pq_i + EMAIL_BATCH_SIZE
            /\ pq_pc' = "batch"
       ELSE /\ pq_i' = 0
            /\ pq_pc' = "idle"
    /\ UNCHANGED <<pq_size, pq_runs, gmail_service, gw_down, clockVars, call_info,
                   eq_runs, rpVars, retryVars, cycleVars, extVars>>

\* _process_retry_queue starts (cron, every 15 minutes; one instance at a
\* time): for retry_data in self.retry_queue[:]
ProcessRetryStart ==
    /\ rp_pc = "idle"
    /\ retry_queue # <<>>
    /\ rp_pc' = "run"
    /\ rp_snapshot' = retry_queue
    /\ rp_k' = 1
    /\ rp_runs < MaxRetryRuns
    /\ rp_runs' = rp_runs + 1
    /\ UNCHANGED <<serviceVars, gatewayVars, clockVars, call_info, pqVars, eq_runs,
                   retryVars, cycleVars, extVars>>

\* the entries stay in the queue at _max_retries
after_retryKeep(rq, retry_data, success) ==
    IF success
    THEN RemoveFirst(rq, retry_data)
    ELSE ReplaceFirst(rq, retry_data, [retry_data EXCEPT !.retry_count = @ + 1])

\* what the loop body does to the retry queue after send_email returned
after_retry(rq, retry_data, success) ==
    IF success
    THEN RemoveFirst(rq, retry_data)
    ELSE LET updated == [retry_data EXCEPT !.retry_count = @ + 1] IN
         IF retry_data.retry_count + 1 >= EmailMaxRetries
         THEN RemoveFirst(ReplaceFirst(rq, retry_data, updated), updated)
         ELSE ReplaceFirst(rq, retry_data, updated)

\* one iteration of the loop, from the end of its backoff sleep: send_email
\* with the entry's email_data, then remove the entry or count the retry
ProcessRetryStep ==
    /\ rp_pc = "run"
    /\ LET retry_data == rp_snapshot[rp_k]
           r == send_email(EState, retry_data.email_data,
                           retry_data.email_data.schedule,
                           retry_data.email_data.retry_count)
       IN SetEState([r.st EXCEPT !.rq = after_retry(@, retry_data, r.ret)])
    /\ IF rp_k < Len(rp_snapshot)
       THEN /\ rp_k' = rp_k + 1
            /\ UNCHANGED <<rp_pc, rp_snapshot>>
       ELSE /\ rp_k' = 0
            /\ rp_pc' = "idle"
            /\ rp_snapshot' = <<>>
    /\ UNCHANGED <<rp_runs, gmail_service, gw_down, clockVars, call_info, pqVars,
                   eq_runs, retryVars, cycleVars, extVars>>

InitEmail ==
    /\ InitLedger
    /\ InitWrapper
    /\ \E t \in Instants : hour = t[1] /\ weekday = t[2]
    /\ InitService
    /\ InitProcessors
    /\ gw_down \in BOOLEAN
    /\ gw_left \in 0..MaxGatewayFails
    /\ gw_down => gw_left = 0
    /\ gw_attempts = [e \in Recipients |-> 0]
    /\ gw_accepted = [e \in Recipients |-> 0]
    /\ call_info = [e \in Emails |-> NoCall]
    /\ CycleIdle
    /\ ExtIdle

\* EmailService alone: send_email, its queue processor and its retry processor
NextService ==
    \/ Tick
    \/ InitializeGmailService
    \/ \E e \in Emails : SendEmail(e)
    \/ ProcessEmailQueue
    \/ ProcessRetryStart
    \/ ProcessRetryStep

SpecService == InitEmail /\ [][NextService]_vars

\* EmailService together with the email_scheduler job
NextEmail ==
    \/ NextService
    \/ ProcessQueueStart
    \/ ProcessQueueBatch

SpecEmail == InitEmail /\ [][NextEmail]_vars

\* runs of the retry job that empty the queue when every retry fails: the
\* entry of a caller's failed send is retried until its count reaches
\* _max_retries, and every failed retry below _max_retries appends one entry
\* that starts one count higher
MaxRetryFirings == (EmailMaxRetries * (EmailMaxRetries + 1)) \div 2

\* the ledger of EmailService after the callers of es called
\* send_email(to=e, ..., schedule=how[e][1]) in turn, how[e][2] telling
\* whether a body or a template was given
RECURSIVE sends(_, _, _)
sends(st, es, how) ==
    IF es = <<>> THEN st
    ELSE LET e == Head(es)
             data == [to |-> e, body_ok |-> how[e][2], schedule |-> FALSE,
                      retry_count |-> 0]
         IN sends(send_email(st, data, how[e][1], 0).st, Tail(es), how)

\* the service after its callers' sends, before the retry job fires; no
\* further send arrives
InitRetryDrain ==
    /\ InitLedger
    /\ InitWrapper
    /\ \E t \in Instants : hour = t[1] /\ weekday = t[2]
    /\ InitProcessors
    /\ gmail_service \in BOOLEAN
    /\ gw_down \in BOOLEAN
    /\ \E left \in 0..MaxGatewayFails, how \in [Emails -> BOOLEAN \X BOOLEAN] :
          /\ gw_down => left = 0
          /\ LET st == sends([q |-> <<>>, rq |-> <<>>,
                              m |-> [total_sent |-> 0, total_failed |-> 0,
                                     total_retried |-> 0],
                              left |-> left,
                              att |-> [e \in Recipients |-> 0],
                              acc |-> [e \in Recipients |-> 0]],
                             [i \in 1..NEmails |-> i], how)
             IN /\ email_queue = st.q
                /\ retry_queue = st.rq
                /\ metrics = st.m
                /\ gw_left = st.left
                /\ gw_attempts = st.att
                /\ gw_accepted = st.acc
    /\ call_info = [e \in Emails |-> NoCall]
    /\ CycleIdle
    /\ ExtIdle

\* the cron trigger of _process_retry_queue fires (every 15 minutes):
\* if not self.retry_queue: return; for retry_data in self.retry_queue[:]
RetryJobFires ==
    /\ rp_pc = "idle"
    /\ retry_queue # <<>>
    /\ rp_runs < MaxRetryFirings
    /\ rp_pc' = "run"
    /\ rp_snapshot' = retry_queue
    /\ rp_k' = 1
    /\ rp_runs' = rp_runs + 1
    /\ UNCHANGED <<serviceVars, gatewayVars, clockVars, call_info, pqVars, eq_runs,
                   retryVars, cycleVars, extVars>>

\* the email window closes for the day
WindowCloses ==
    /\ InEmailWindow
    /\ hour' = EMAIL_END_HOUR + 1
    /\ UNCHANGED <<weekday, serviceVars, gatewayVars, call_info, pqVars, eq_runs, rpVars,
                   retryVars, cycleVars, extVars>>

\* the retry job alone, as the day goes on
NextRetryDrain ==
    \/ WindowCloses
    \/ RetryJobFires
    \/ ProcessRetryStep

\* the scheduler keeps firing the retry job, and a started run goes on after
\* each backoff sleep
SpecRetryDrain ==
    /\ InitRetryDrain
    /\ [][NextRetryDrain]_vars
    /\ WF_vars(RetryJobFires)
    /\ WF_vars(ProcessRetryStep)

\* send_email alone, called at any instant
NextSend ==
    \/ Tick
    \/ InitializeGmailService
    \/ \E e \in Emails : SendEmail(e)

SpecSend == InitEmail /\ [][NextSend]_vars

\* the primary queues a run of _process_email_queue may find: up to MaxQueued
\* dicts appended by send_email, for any recipients, with or without a body
QueuedDicts ==
    {QueueEntry([to |-> e, body_ok |-> b, schedule |-> FALSE, retry_count |-> 0]) :
        e \in Recipients, b \in BOOLEAN}

PrimaryQueues == UNION {[1..n -> QueuedDicts] : n \in 0..MaxQueued}

InitDrain ==
    /\ InitLedger
    /\ InitWrapper
    /\ \E t \in Instants : hour = t[1] /\ weekday = t[2]
    /\ gmail_service = FALSE
    /\ email_queue \in PrimaryQueues
    /\ retry_queue = <<>>
    /\ metrics = [total_sent |-> 0, total_failed |-> 0, total_retried |-> 0]
    /\ InitProcessors
    /\ gw_down \in BOOLEAN
    /\ gw_left \in 0..MaxGatewayFails
    /\ gw_down => gw_left = 0
    /\ gw_attempts = [e \in Recipients |-> 0]
    /\ gw_accepted = [e \in Recipients |-> 0]
    /\ call_info = [e \in Emails |-> NoCall]
    /\ CycleIdle
    /\ ExtIdle

\* _process_email_queue alone, over a queue filled beforehand
NextDrain ==
    \/ Tick
    \/ InitializeGmailService
    \/ ProcessEmailQueue

SpecDrain == InitDrain /\ [][NextDrain]_vars

NoneActive == \A i \in Invs : w_pc[i] \in {"idle", "returned", "raised"}

\* ---- SpecRetry: wrapped operations invoked one after another

\* a caller invokes an operation decorated with (max_retries, job_name)
Call(i) ==
    /\ NoneActive
    /\ n_calls < MaxCalls
    /\ n_calls' = n_calls + 1
    /\ \E job \in Jobs, m \in 0..MaxRetriesBound : WrapperEnter(i, job, m)
    /\ UNCHANGED <<emailVars, cycleVars, extVars>>

Attempt(i) == WrapperAttempt(i) /\ UNCHANGED <<n_calls, emailVars, cycleVars, extVars>>

FallThrough(i) == WrapperFallThrough(i) /\ UNCHANGED <<n_calls, emailVars, cycleVars, extVars>>

\* the wrapped operation returns a value
OpReturns(i) ==
    \E v \in Values :
        /\ WrapperReturn(i, v)
        /\ w_value' = [w_value EXCEPT ![i] = v]
        /\ UNCHANGED <<w_errs, w_base, n_calls, emailVars, cycleVars, extVars>>

\* the wrapped operation raises
OpRaises(i) ==
    \E e \in Errors :
        /\ WrapperExcept(i, e)
        /\ w_errs' = [w_errs EXCEPT ![i] = Append(@, e)]
        /\ UNCHANGED <<w_value, w_base, n_calls, emailVars, cycleVars, extVars>>

InitRetry == InitLedger /\ InitWrapper /\ EmailIdle /\ CycleIdle /\ ExtIdle

\* SpecRetry follows one caller, which invokes wrapped operations in turn
SeqCaller == {1}

NextRetry ==
    \E i \in SeqCaller :
        \/ Call(i)
        \/ Attempt(i)
        \/ FallThrough(i)
        \/ OpReturns(i)
        \/ OpRaises(i)

SpecRetry == InitRetry /\ [][NextRetry]_vars

\* ---- SpecConcurrent: wrapped operations invoked as concurrent tasks

\* the invocations SpecConcurrent follows: tasks of one event loop, which
\* change hands at `await func(...)` (line 75) and nowhere else
ConcCallers == {1, 2}

\* a task enters the wrapper while others may be suspended in theirs
ConcCall(i) ==
    /\ w_pc[i] = "idle"
    /\ n_calls' = n_calls + 1
    /\ \E job \in Jobs, m \in 0..MaxRetriesBound : WrapperEnter(i, job, m)
    /\ UNCHANGED <<emailVars, cycleVars, extVars>>

NextConcurrent ==
    \E i \in ConcCallers :
        \/ ConcCall(i)
        \/ Attempt(i)
        \/ FallThrough(i)
        \/ OpReturns(i)
        \/ OpRaises(i)

SpecConcurrent == InitRetry /\ [][NextConcurrent]_vars

\* ------------------------------------------------------------ run_followups

\* settings.FOLLOWUP_THROTTLE_SECONDS: the 24 h throttle, in seconds
FOLLOWUP_THROTTLE_SECONDS == 86400

\* settings.FOLLOWUP_MIN_SCORE, in ten-thousandths (compute rounds to 4 places)
FOLLOWUP_MIN_SCORE == 5000

\* settings.FOLLOWUP_START_HOUR, settings.FOLLOWUP_END_HOUR
FOLLOWUP_START_HOUR == 9

FOLLOWUP_END_HOUR == 17

\* max_retries of the decorator of FollowupService.send_followup
FollowupMaxRetries == 3

\* seconds since the latest conversation of a lead: none, just inside the
\* throttle, exactly at it
ContactAges == {-1, FOLLOWUP_THROTTLE_SECONDS - 1, FOLLOWUP_THROTTLE_SECONDS}

\* scores priority_scorer.compute returns: just below the minimum, at it
Scores == {FOLLOWUP_MIN_SCORE - 1, FOLLOWUP_MIN_SCORE}

\* the instants a cycle runs at: the last hour of the follow-up window and
\* the hour after it
CycleInstants == {<<16, 0>>, <<17, 0>>}

\* how a call of the store ends: with rows, with a query error (swallowed by
\* the client, which returns an empty list), with no client (raised by the
\* client property, RuntimeError after the attempts of retry_on_failure)
StoreOutcomes == {"rows", "query_error", "client_error"}

AllLeads == [k \in 1..NInv |-> k]

Range(seq) == {seq[k] : k \in DOMAIN seq}

\* EmailService.is_within_business_hours
is_within_business_hours == FOLLOWUP_START_HOUR <= hour /\ hour < FOLLOWUP_END_HOUR

\* the test with the threshold itself counted as throttled
throttledInclusive(age) == age # -1 /\ age <= FOLLOWUP_THROTTLE_SECONDS

\* if last: (utcnow() - last_ts).total_seconds() < FOLLOWUP_THROTTLE_SECONDS
throttled(age) == age # -1 /\ age < FOLLOWUP_THROTTLE_SECONDS

\* run_followups starts: leads = await get_supabase_client().fetch_leads()
FetchLeads ==
    /\ c_pc = "idle"
    /\ \E outcome \in StoreOutcomes, n \in 0..NInv :
          /\ outcome # "rows" => n = 0
          /\ c_fetch' = outcome
          /\ c_leads' = SubSeq(AllLeads, 1, n)
          /\ c_idx' = IF n = 0 THEN 0 ELSE 1
          /\ IF outcome = "client_error"
             THEN /\ c_pc' = "raised"
                  /\ c_error' = "RuntimeError"
             ELSE /\ c_pc' = IF n = 0 THEN "done" ELSE "eval"
                  /\ UNCHANGED c_error
    /\ UNCHANGED <<c_tasks, last_contact, f_metrics, retryVars, emailVars, extVars>>

\* the iteration without the handler of lines 42-44: an exception of the
\* store or of the scorer leaves the loop and the cycle
EvalWithAbort(conv, raises, score) ==
    /\ LET lead == c_leads[c_idx]
           age == IF conv = "rows" THEN last_contact[lead] ELSE -1
           went == IF conv = "client_error" THEN "failed"
                   ELSE IF throttled(age) THEN "throttled"
                   ELSE "scorer"
           dispatch == /\ went = "scorer"
                       /\ ~raises
                       /\ ~(score < FOLLOWUP_MIN_SCORE)
           aborts == went = "failed" \/ (went = "scorer" /\ raises)
       IN /\ c_tasks' = IF dispatch THEN Append(c_tasks, lead) ELSE c_tasks
          /\ c_guard' = [c_guard EXCEPT ![lead] = [went |-> went, last |-> age]]
          /\ IF aborts
             THEN /\ c_idx' = 0
                  /\ c_pc' = "raised"
                  /\ c_error' = "RuntimeError"
             ELSE /\ UNCHANGED c_error
                  /\ IF c_idx < Len(c_leads)
                     THEN /\ c_idx' = c_idx + 1
                          /\ c_pc' = "eval"
                     ELSE /\ c_idx' = 0
                          /\ c_pc' = IF c_tasks' = <<>> THEN "done" ELSE "join"
    /\ UNCHANGED <<c_leads, c_fetch, last_contact, f_metrics, retryVars,
                   emailVars, coreVars, job_runs, queueVars, laterVars>>

\* one iteration of `for lead in leads` (lines 26-44): the store answers the
\* conversation query with conv, the scorer raises or returns score; any
\* exception skips the lead
EvalWith(conv, raises, score) ==
    /\ LET lead == c_leads[c_idx]
           age == IF conv = "rows" THEN last_contact[lead] ELSE -1
           went == IF conv = "client_error" THEN "failed"
                   ELSE IF throttled(age) THEN "throttled"
                   ELSE "scorer"
           dispatch == /\ went = "scorer"
                       /\ ~raises
                       /\ ~(score < FOLLOWUP_MIN_SCORE)
       IN /\ c_tasks' = IF dispatch THEN Append(c_tasks, lead) ELSE c_tasks
          /\ c_guard' = [c_guard EXCEPT ![lead] = [went |-> went, last |-> age]]
    /\ IF c_idx < Len(c_leads)
       THEN /\ c_idx' = c_idx + 1
            /\ c_pc' = "eval"
       ELSE /\ c_idx' = 0
            /\ c_pc' = IF c_tasks' = <<>> THEN "done" ELSE "join"
    /\ UNCHANGED <<c_leads, c_fetch, c_error, last_contact, f_metrics, retryVars,
                   emailVars, coreVars, job_runs, queueVars, laterVars>>

\* the iteration with the scorer as a collaborator
EvalLead ==
    /\ c_pc = "eval"
    /\ \E conv \in StoreOutcomes, raises \in BOOLEAN, score \in Scores :
          EvalWith(conv, raises, score)

\* send_followup has been called for lead l and not yet answered: by the task
\* run_followups created for it (scheduler_service.py:39-41, 62), or by
\* process_followup_queue for the row it is at (followup_service.py:104)
Called(l) ==
    \/ q_pc = "idle" /\ l \in Range(c_tasks)
    \/ q_pc = "item" /\ q_snapshot[q_k] = l

\* the task of lead l starts: scheduler_service.send_followup awaits
\* followup_service.send_followup, which enters its wrapper
DispatchStart(l) ==
    /\ Called(l)
    /\ w_pc[l] = "idle"
    /\ WrapperEnter(l, "send_followup", FollowupMaxRetries)
    /\ UNCHANGED <<n_calls, emailVars, cycleVars, extVars>>

DispatchAttempt(l) ==
    /\ Called(l)
    /\ WrapperAttempt(l)
    /\ UNCHANGED <<n_calls, emailVars, cycleVars, extVars>>

\* the body of FollowupService.send_followup returns v
followup_returns(l, v) ==
    /\ WrapperReturn(l, v)
    /\ w_value' = [w_value EXCEPT ![l] = v]
    /\ UNCHANGED <<w_errs, w_base, n_calls>>

\* one attempt of FollowupService.send_followup for lead l (lines 52-91).
\* After a send the gateway accepted, send_email calls insert_conversation
\* without awaiting it (email_service.py:316-328): the coroutine never runs
\* and the conversations of the store, last_contact, stay as they were
DispatchBody(l) ==
    /\ Called(l)
    /\ w_pc[l] = "await"
    /\ \E got \in {"lead", "none", "raises"} :
          CASE got = "raises" ->
                 /\ f_metrics' = [f_metrics EXCEPT !.failed_followups = @ + 1]
                 /\ WrapperExcept(l, "AttributeError")
                 /\ w_errs' = [w_errs EXCEPT ![l] = Append(@, "AttributeError")]
                 /\ UNCHANGED <<w_value, w_base, n_calls, emailVars>>
            [] got = "none" ->
                 /\ followup_returns(l, "False")
                 /\ UNCHANGED <<f_metrics, emailVars>>
            [] got = "lead" /\ ~is_within_business_hours ->
                 /\ f_metrics' = [f_metrics EXCEPT !.queued_followups = @ + 1]
                 /\ followup_returns(l, "True")
                 /\ UNCHANGED emailVars
            [] got = "lead" /\ is_within_business_hours ->
                 LET data == [to |-> l, body_ok |-> TRUE, schedule |-> FALSE,
                              retry_count |-> 0]
                     r == send_email(EState, data, FALSE, 0)
                 IN /\ SetEState(r.st)
                    /\ f_metrics' =
                          [f_metrics EXCEPT
                             !.successful_followups = IF r.ret THEN @ + 1 ELSE @,
                             !.failed_followups = IF r.ret THEN @ ELSE @ + 1,
                             !.total_followups = @ + 1]
                    /\ followup_returns(l, IF r.ret THEN "True" ELSE "False")
                    /\ UNCHANGED <<gmail_service, gw_down, clockVars, call_info,
                                   pqVars, eq_runs, rpVars>>
    /\ UNCHANGED <<c_pc, c_leads, c_idx, c_tasks, c_fetch, c_error, last_contact,
                   extVars>>

\* await asyncio.gather(*tasks): every task returned
JoinReturns ==
    /\ c_pc = "join"
    /\ \A l \in Range(c_tasks) : w_pc[l] = "returned"
    /\ c_pc' = "done"
    /\ UNCHANGED <<c_leads, c_idx, c_tasks, c_fetch, c_error, last_contact,
                   f_metrics, retryVars, emailVars, extVars>>

\* await asyncio.gather(*tasks): a task raised; gather raises its exception,
\* which run_followups logs and raises again (lines 50-52, 55-57)
JoinRaises ==
    /\ c_pc = "join"
    /\ \E l \in Range(c_tasks) :
          /\ w_pc[l] = "raised"
          /\ c_error' = w_raised[l]
    /\ c_pc' = "raised"
    /\ UNCHANGED <<c_leads, c_idx, c_tasks, c_fetch, last_contact, f_metrics,
                   retryVars, emailVars, extVars>>

InitCycle ==
    /\ InitLedger
    /\ InitWrapper
    /\ \E t \in CycleInstants : hour = t[1] /\ weekday = t[2]
    /\ InitService
    /\ InitProcessors
    /\ gw_down \in BOOLEAN
    /\ gw_left \in 0..MaxGatewayFails
    /\ gw_down => gw_left = 0
    /\ gw_attempts = [e \in Recipients |-> 0]
    /\ gw_accepted = [e \in Recipients |-> 0]
    /\ call_info = [e \in Emails |-> NoCall]
    /\ c_pc = "idle"
    /\ c_leads = <<>>
    /\ c_idx = 0
    /\ c_tasks = <<>>
    /\ c_fetch = "none"
    /\ c_error = "None"
    /\ last_contact \in [Leads -> ContactAges]
    /\ f_metrics = [total_followups |-> 0, successful_followups |-> 0,
                    failed_followups |-> 0, queued_followups |-> 0]
    /\ ExtIdle

\* one orchestration cycle with its dispatches
NextCycle ==
    \/ InitializeGmailService
    \/ FetchLeads
    \/ EvalLead
    \/ \E l \in Leads : DispatchStart(l)
    \/ \E l \in Leads : DispatchAttempt(l)
    \/ \E l \in Leads : DispatchBody(l)
    \/ JoinReturns
    \/ JoinRaises

SpecCycle == InitCycle /\ [][NextCycle]_vars

\* ------------------------------------------ the lead loop of run_followups

\* the loop of lines 26-44 over leads whose latest conversation is of any age,
\* up to the point where the tasks are handed to asyncio.gather
InitLoop ==
    /\ InitLedger
    /\ InitWrapper
    /\ EmailIdle
    /\ c_pc = "idle"
    /\ c_leads = <<>>
    /\ c_idx = 0
    /\ c_tasks = <<>>
    /\ c_fetch = "none"
    /\ c_error = "None"
    /\ last_contact \in [Leads -> ContactAges]
    /\ f_metrics = [total_followups |-> 0, successful_followups |-> 0,
                    failed_followups |-> 0, queued_followups |-> 0]
    /\ ExtIdle

NextGuard ==
    \/ FetchLeads
    \/ EvalLead

SpecGuard == InitLoop /\ [][NextGuard]_vars

\* priority_scorer.compute as written (priority.py:43-60): line 45 calls the
\* coroutine function fetch_recent_conversations without awaiting it, so
\* `recent` is a coroutine object; it is truthy, and recent[0] on line 47
\* raises TypeError before any score is computed
compute(lead) == [raises |-> TRUE, error |-> "TypeError", score |-> 0]

\* the iteration with the scorer of priority.py
EvalLeadComputed ==
    /\ c_pc = "eval"
    /\ \E conv \in StoreOutcomes :
          LET r == compute(c_leads[c_idx])
          IN EvalWith(conv, r.raises, r.score)

NextScored ==
    \/ FetchLeads
    \/ EvalLeadComputed

SpecScored == InitLoop /\ [][NextScored]_vars

\* ------------------------------------------------- cycle after cycle

\* the invocations of send_followup made so far are over; a call for lead l
\* is a new invocation of the wrapper
NewInvocations ==
    /\ w_pc' = [i \in Invs |-> "idle"]
    /\ w_job' = [i \in Invs |-> "send_email"]
    /\ w_max' = [i \in Invs |-> 0]
    /\ w_attempt' = [i \in Invs |-> 0]
    /\ w_last_error' = [i \in Invs |-> "None"]
    /\ w_result' = [i \in Invs |-> "None"]
    /\ w_raised' = [i \in Invs |-> "None"]
    /\ w_errs' = [i \in Invs |-> <<>>]
    /\ w_value' = [i \in Invs |-> "None"]
    /\ w_trace' = [i \in Invs |-> <<>>]
    /\ w_base' = [i \in Invs |-> [retry_counts |-> [j \in Jobs |-> 0],
                                  failure_counts |-> [j \in Jobs |-> 0]]]
    /\ w_end' = w_base'

\* the tasks of the finished cycle are done with; run_followups may be
\* triggered again, and a dispatch to lead l is a new wrapper invocation
CycleAgain ==
    /\ c_pc \in {"done", "raised"}
    /\ \A l \in Range(c_tasks) : Finished(l)
    /\ Len(job_runs["run_followups"]) < MaxRuns - 1
    /\ job_runs' = [job_runs EXCEPT !["run_followups"] = Append(@, "done")]
    /\ c_pc' = "idle"
    /\ c_leads' = <<>>
    /\ c_idx' = 0
    /\ c_tasks' = <<>>
    /\ c_fetch' = "none"
    /\ c_error' = "None"
    /\ NewInvocations
    /\ c_guard' = [l \in Leads |-> NotEvaluated]
    /\ UNCHANGED <<last_contact, f_metrics, ledgerVars, n_calls, emailVars, coreVars,
                   queueVars, laterVars>>

\* cycles during business hours, with a gateway that accepts, over leads
\* with any history of contacts
InitThrottle ==
    /\ InitLedger
    /\ InitWrapper
    /\ hour = 16
    /\ weekday = 0
    /\ InitService
    /\ InitProcessors
    /\ gw_down = FALSE
    /\ gw_left = 0
    /\ gw_attempts = [e \in Recipients |-> 0]
    /\ gw_accepted = [e \in Recipients |-> 0]
    /\ call_info = [e \in Emails |-> NoCall]
    /\ c_pc = "idle"
    /\ c_leads = <<>>
    /\ c_idx = 0
    /\ c_tasks = <<>>
    /\ c_fetch = "none"
    /\ c_error = "None"
    /\ last_contact \in [Leads -> ContactAges]
    /\ f_metrics = [total_followups |-> 0, successful_followups |-> 0,
                    failed_followups |-> 0, queued_followups |-> 0]
    /\ ExtIdle

NextThrottle ==
    \/ NextCycle
    \/ CycleAgain

\* orchestration cycles that follow one another without delay
SpecThrottle == InitThrottle /\ [][NextThrottle]_vars

\* ---------------------------------------------------- process_followup_queue

\* runs of process_followup_queue in one behaviour
MaxFollowupRuns == 1

\* the instants the follow-up machine starts at: the hour after the follow-up
\* window on a Monday, and an hour inside it on a Saturday
FollowupInstants == {<<17, 0>>, <<16, 5>>}

\* no cycle is at work: run_followups has not started or is over, and the
\* tasks it created have all ended
CycleQuiet ==
    /\ c_pc \in {"idle", "done", "raised"}
    /\ \A l \in Range(c_tasks) : Finished(l)

\* select("*").eq("status", "queued"): the queued rows, in table order
QueuedRows == SelectSeq(AllLeads, LAMBDA l : followups[l] = "queued")

\* the clock reaches the start of the next follow-up window
HoursBegin ==
    /\ ~is_within_business_hours
    /\ CycleQuiet
    /\ q_pc \in {"idle", "over"}
    /\ hour' = FOLLOWUP_START_HOUR
    /\ weekday' = (weekday + 1) % 7
    /\ UNCHANGED <<serviceVars, gatewayVars, call_info, pqVars, eq_runs, rpVars,
                   retryVars, cycleVars, extVars>>

\* the interval job fires (followup_service.py:151-156): outside the window
\* process_followup_queue returns at once (lines 95-96); inside it fetches
\* the queued rows (line 101); a raise ends the run (lines 114-115)
QueueRunStart ==
    /\ q_pc \in {"idle", "over"}
    /\ q_runs < MaxFollowupRuns
    /\ CycleQuiet
    /\ q_runs' = q_runs + 1
    /\ IF ~is_within_business_hours
       THEN UNCHANGED <<q_pc, q_snapshot, q_k, retryVars>>
       ELSE /\ \E out \in StoreOutcomes :
                  /\ q_snapshot' = IF out = "rows" THEN QueuedRows ELSE <<>>
                  /\ q_pc' = IF q_snapshot' = <<>> THEN "over" ELSE "item"
                  /\ q_k' = IF q_snapshot' = <<>> THEN 0 ELSE 1
            /\ NewInvocations
            /\ UNCHANGED <<ledgerVars, n_calls>>
    /\ UNCHANGED <<followups, emailVars, cycleVars, coreVars, job_runs, c_guard,
                   laterVars>>

\* the next row, or the end of the run
QueueAdvance ==
    IF q_k < Len(q_snapshot)
    THEN q_k' = q_k + 1 /\ q_pc' = "item"
    ELSE q_k' = 0 /\ q_pc' = "over"

\* send_followup for the row has answered (lines 104-112): a raise ends the
\* run (lines 114-115); on True the row is marked sent, unless the store
\* fails, and queued_followups goes down by one
QueueItemDone ==
    /\ q_pc = "item"
    /\ Finished(q_snapshot[q_k])
    /\ LET l == q_snapshot[q_k]
       IN IF w_pc[l] = "raised"
          THEN /\ q_pc' = "over"
               /\ q_k' = 0
               /\ UNCHANGED <<followups, f_metrics>>
          ELSE IF w_value[l] = "True"
          THEN \E out \in StoreOutcomes :
                  IF out = "client_error"
                  THEN /\ q_pc' = "over"
                       /\ q_k' = 0
                       /\ UNCHANGED <<followups, f_metrics>>
                  ELSE /\ followups' = IF out = "rows"
                                       THEN [followups EXCEPT ![l] = "sent"]
                                       ELSE followups
                       /\ f_metrics' =
                             [f_metrics EXCEPT !.queued_followups = @ - 1]
                       /\ QueueAdvance
          ELSE /\ QueueAdvance
               /\ UNCHANGED <<followups, f_metrics>>
    /\ UNCHANGED <<q_snapshot, q_runs, c_pc, c_leads, c_idx, c_tasks, c_fetch,
                   c_error, last_contact, retryVars, emailVars, coreVars,
                   job_runs, c_guard, laterVars>>

\* a cycle and the interval job, with the gateway client installed and a
\* working gateway, over leads that were never contacted; other writers may
\* have left queued rows in the table
InitFollowup ==
    /\ InitLedger
    /\ InitWrapper
    /\ \E t \in FollowupInstants : hour = t[1] /\ weekday = t[2]
    /\ gmail_service = TRUE
    /\ email_queue = <<>>
    /\ retry_queue = <<>>
    /\ metrics = [total_sent |-> 0, total_failed |-> 0, total_retried |-> 0]
    /\ InitProcessors
    /\ gw_down = FALSE
    /\ gw_left = 0
    /\ gw_attempts = [e \in Recipients |-> 0]
    /\ gw_accepted = [e \in Recipients |-> 0]
    /\ call_info = [e \in Emails |-> NoCall]
    /\ CycleIdle
    /\ CoreIdle
    /\ job_runs = [j \in {"run_followups", "process_followup_queue"} |-> <<>>]
    /\ c_guard = [l \in Leads |-> NotEvaluated]
    /\ followups \in [Leads -> {"none", "queued"}]
    /\ QueueIdle
    /\ LaterIdle

NextFollowup ==
    \/ FetchLeads
    \/ EvalLead
    \/ \E l \in Leads : DispatchStart(l)
    \/ \E l \in Leads : DispatchAttempt(l)
    \/ \E l \in Leads : DispatchBody(l)
    \/ JoinReturns
    \/ JoinRaises
    \/ HoursBegin
    \/ QueueRunStart
    \/ QueueItemDone

SpecFollowup == InitFollowup /\ [][NextFollowup]_vars

\* the clock reaches the end of the follow-up window while a run of
\* process_followup_queue is suspended in one of its awaits
HoursEnd ==
    /\ is_within_business_hours
    /\ q_pc = "item"
    /\ hour' = FOLLOWUP_END_HOUR
    /\ UNCHANGED <<weekday, serviceVars, gatewayVars, call_info, pqVars, eq_runs, rpVars,
                   retryVars, cycleVars, extVars>>

NextQueueHours == NextFollowup \/ HoursEnd

\* SpecFollowup with a clock that also passes the end of the window
SpecQueueHours == InitFollowup /\ [][NextQueueHours]_vars

\* --------------------------------------------------------------- with_retry

\* DEFAULT_MAX_RETRIES, DEFAULT_BACKOFF_BASE (core/constants.py)
DEFAULT_MAX_RETRIES == 3

DEFAULT_BACKOFF_BASE == 2

\* operations decorated with with_retry: the chunk write of process_batch and
\* a write of SupabaseService
CoreOps == {"update_chunk", "log_followup"}

\* the values max_retries takes: the default and the values near it
CoreMaxRetries == 0..MaxRetriesBound

\* what with_retry leaves alone
exceptCore == <<retryVars, emailVars, cycleVars, job_runs, c_guard, queueVars,
                laterVars>>

\* a caller invokes an operation decorated with with_retry(max_retries):
\* last_error = None, the for loop starts at attempt 0
CoreCall ==
    /\ cr_pc \in {"idle", "returned", "raised"}
    /\ cr_calls < MaxCalls
    /\ cr_calls' = cr_calls + 1
    /\ \E op \in CoreOps, max_retries \in CoreMaxRetries :
          /\ cr_op' = op
          /\ cr_max' = max_retries
    /\ cr_pc' = "loop"
    /\ cr_attempt' = 0
    /\ cr_last_error' = "None"
    /\ cr_out' = "None"
    /\ cr_trace' = <<"call">>
    /\ UNCHANGED <<error_counter, exceptCore>>

\* for attempt in range(max_retries): return func(*args, **kwargs)
CoreAttempt ==
    /\ cr_pc = "loop"
    /\ cr_attempt < cr_max
    /\ cr_pc' = "func"
    /\ cr_trace' = Append(cr_trace, "attempt")
    /\ UNCHANGED <<cr_op, cr_max, cr_attempt, cr_last_error, cr_out, cr_calls,
                   error_counter, exceptCore>>

\* the operation returns
CoreReturns ==
    /\ cr_pc = "func"
    /\ cr_pc' = "returned"
    /\ \E v \in Values : cr_out' = v
    /\ cr_trace' = Append(cr_trace, "return")
    /\ UNCHANGED <<cr_op, cr_max, cr_attempt, cr_last_error, cr_calls,
                   error_counter, exceptCore>>

CoreSleepsAlways(attempt, max_retries) == attempt < max_retries

\* if attempt < max_retries - 1: time.sleep(backoff_base**attempt + random())
CoreSleeps(attempt, max_retries) == attempt < max_retries - 1

\* the operation raises e: last_error = e, error_counter.inc(), the sleep
\* (which blocks the thread), and the next iteration of the loop
CoreRaises ==
    /\ cr_pc = "func"
    /\ \E e \in Errors :
          /\ cr_last_error' = e
          /\ cr_trace' = cr_trace \o
                (IF CoreSleeps(cr_attempt, cr_max)
                 THEN <<"fail", "inc", "sleep">> ELSE <<"fail", "inc">>)
    /\ error_counter' = error_counter + 1
    /\ cr_attempt' = cr_attempt + 1
    /\ cr_pc' = "loop"
    /\ UNCHANGED <<cr_op, cr_max, cr_out, cr_calls, exceptCore>>

\* the loop is over: raise last_error (None when max_retries = 0, for which
\* Python raises TypeError)
CoreExhausted ==
    /\ cr_pc = "loop"
    /\ ~(cr_attempt < cr_max)
    /\ cr_pc' = "raised"
    /\ cr_out' = IF cr_last_error = "None" THEN "TypeError" ELSE cr_last_error
    /\ cr_trace' = Append(cr_trace, "raise")
    /\ UNCHANGED <<cr_op, cr_max, cr_attempt, cr_last_error, cr_calls,
                   error_counter, exceptCore>>

InitCore == InitLedger /\ InitWrapper /\ EmailIdle /\ CycleIdle /\ ExtIdle

NextCore ==
    \/ CoreCall
    \/ CoreAttempt
    \/ CoreReturns
    \/ CoreRaises
    \/ CoreExhausted

\* operations under with_retry, invoked one after another
SpecCore == InitCore /\ [][NextCore]_vars

\* ------------------------------------------------ triggers of the jobs

\* the jobs of the follow-up side: the cycle (manual endpoint, messaging.py:
\* 126, and run_followups.py) and the queue job (interval job, every 5 min)
FollowupJobs == {"run_followups", "process_followup_queue"}

\* the awaits of a run, in order, and its end
RunSteps(job) ==
    IF job = "run_followups"
    THEN <<"fetch_leads", "fetch_recent_conversations", "gather", "done">>
    ELSE <<"get_queued_followups", "send_followup", "mark_followup_sent", "done">>

RunsInProgress(job) == {k \in DOMAIN job_runs[job] : job_runs[job][k] # "done"}

exceptRuns == <<retryVars, emailVars, cycleVars, coreVars, c_guard, queueVars,
                laterVars>>

\* a trigger of the job arrives: `await run_followups()` in the endpoint,
\* `asyncio.create_task(self.process_followup_queue())` in the interval job;
\* neither tests whether a run is in progress
TriggerJob(job) ==
    /\ Len(job_runs[job]) < MaxRuns
    /\ job_runs' = [job_runs EXCEPT ![job] = Append(@, RunSteps(job)[1])]
    /\ UNCHANGED exceptRuns

\* run k of the job goes on from the await it was suspended at to the next
RunProceeds(job, k) ==
    /\ k \in RunsInProgress(job)
    /\ \E n \in 1..3 :
          /\ job_runs[job][k] = RunSteps(job)[n]
          /\ job_runs' = [job_runs EXCEPT ![job][k] = RunSteps(job)[n + 1]]
    /\ UNCHANGED exceptRuns

InitRuns == InitLedger /\ InitWrapper /\ EmailIdle /\ CycleIdle /\ ExtIdle

NextRuns ==
    \/ \E job \in FollowupJobs : TriggerJob(job)
    \/ \E job \in FollowupJobs, k \in 1..MaxRuns : RunProceeds(job, k)

\* the follow-up jobs and their triggers
SpecRuns == InitRuns /\ [][NextRuns]_vars

\* ------------------------------------------------------------ process_batch

Min2(a, b) == IF a < b THEN a ELSE b

\* a slice one cell short: cell_list[i : i + self.chunk_size - 1]
ChunkAtShort(cells, i, size) == SubSeq(cells, i + 1, Min2(i + size - 1, Len(cells)))

\* cell_list[i : i + self.chunk_size]
ChunkAt(cells, i, size) == SubSeq(cells, i + 1, Min2(i + size, Len(cells)))

\* the state process_batch leaves alone
exceptBatch == <<retryVars, emailVars, cycleVars, coreVars, job_runs, c_guard, queueVars,
                 restVars>>

\* a worker calls process_batch: cell_list = []
BatchStart(f) ==
    /\ b_pc[f] = "idle"
    /\ b_pc' = [b_pc EXCEPT ![f] = "drain"]
    /\ UNCHANGED <<b_queue, chunk_size, b_cells, b_popped, b_i, b_att, b_tried,
                   b_written, b_error, b_fails_left, redis_errors, sheets_errors,
                   exceptBatch>>

\* a drain that reads the list without removing what it read: lrange(0, -1)
\* in place of the lpop loop
BatchPopRead(f) ==
    /\ b_pc[f] = "drain"
    /\ b_cells' = [b_cells EXCEPT ![f] = b_queue]
    /\ b_popped' = [b_popped EXCEPT ![f] = b_queue]
    /\ b_pc' = [b_pc EXCEPT ![f] = IF b_queue = <<>> THEN "done" ELSE "write"]
    /\ UNCHANGED <<b_queue, b_error, b_fails_left, redis_errors, chunk_size, b_i,
                   b_att, b_tried, b_written, sheets_errors, exceptBatch>>

\* one turn of `while True` (lines 43-54): lpop raises, or returns None and
\* the loop breaks, or returns the head of the list, which parses into a cell
\* or raises (split, int, header_map, the cell lookup); any exception is
\* counted in redis_errors and raised
BatchPop(f) ==
    /\ b_pc[f] = "drain"
    /\ \/ /\ b_fails_left > 0
          /\ b_fails_left' = b_fails_left - 1
          /\ redis_errors' = redis_errors + 1
          /\ b_pc' = [b_pc EXCEPT ![f] = "raised"]
          /\ b_error' = [b_error EXCEPT ![f] = "RedisError"]
          /\ UNCHANGED <<b_queue, b_cells, b_popped>>
       \/ /\ b_queue = <<>>
          /\ b_pc' = [b_pc EXCEPT ![f] = IF b_cells[f] = <<>> THEN "done" ELSE "write"]
          /\ UNCHANGED <<b_queue, b_cells, b_popped, b_error, b_fails_left,
                         redis_errors>>
       \/ /\ b_queue # <<>>
          /\ b_queue' = Tail(b_queue)
          /\ b_popped' = [b_popped EXCEPT ![f] = Append(@, Head(b_queue))]
          /\ \E parses \in BOOLEAN :
                IF parses
                THEN /\ b_cells' = [b_cells EXCEPT ![f] = Append(@, Head(b_queue))]
                     /\ UNCHANGED <<b_pc, b_error, redis_errors>>
                ELSE /\ redis_errors' = redis_errors + 1
                     /\ b_pc' = [b_pc EXCEPT ![f] = "raised"]
                     /\ b_error' = [b_error EXCEPT ![f] = "ValueError"]
                     /\ UNCHANGED b_cells
          /\ UNCHANGED b_fails_left
    /\ UNCHANGED <<chunk_size, b_i, b_att, b_tried, b_written, sheets_errors,
                   exceptBatch>>

\* update_chunk inside a handler that logs the exhausted chunk and goes on
\* to the next one
BatchWriteBestEffort(f) ==
    /\ b_pc[f] = "write"
    /\ b_tried' = [b_tried EXCEPT ![f] = @ \cup {b_i[f]}]
    /\ \/ /\ b_written' = [b_written EXCEPT ![f] =
                               Append(@, ChunkAt(b_cells[f], b_i[f], chunk_size))]
          /\ b_att' = [b_att EXCEPT ![f] = 0]
          /\ b_i' = [b_i EXCEPT ![f] = @ + chunk_size]
          /\ b_pc' = [b_pc EXCEPT ![f] = IF b_i'[f] >= Len(b_cells[f])
                                         THEN "done" ELSE "write"]
          /\ UNCHANGED <<b_error, b_fails_left, sheets_errors>>
       \/ /\ b_fails_left > 0
          /\ b_fails_left' = b_fails_left - 1
          /\ sheets_errors' = sheets_errors + 1
          /\ IF CoreSleeps(b_att[f], DEFAULT_MAX_RETRIES)
             THEN /\ b_att' = [b_att EXCEPT ![f] = @ + 1]
                  /\ UNCHANGED <<b_pc, b_i>>
             ELSE /\ b_att' = [b_att EXCEPT ![f] = 0]
                  /\ b_i' = [b_i EXCEPT ![f] = @ + chunk_size]
                  /\ b_pc' = [b_pc EXCEPT ![f] = IF b_i'[f] >= Len(b_cells[f])
                                                 THEN "done" ELSE "write"]
          /\ UNCHANGED <<b_written, b_error>>
    /\ UNCHANGED <<b_queue, chunk_size, b_cells, b_popped, redis_errors, exceptBatch>>

\* one attempt of update_chunk under with_retry(error_counter=sheets_errors)
\* (lines 59-68, decorators.py:18-30): a write that succeeds moves the loop to
\* the next chunk; a write that fails is counted, and retried after a sleep
\* while attempts are left; after the last attempt the wrapper raises, and
\* process_batch, which has no handler around it, raises too
BatchWrite(f) ==
    /\ b_pc[f] = "write"
    /\ b_tried' = [b_tried EXCEPT ![f] = @ \cup {b_i[f]}]
    /\ \/ /\ b_written' = [b_written EXCEPT ![f] =
                               Append(@, ChunkAt(b_cells[f], b_i[f], chunk_size))]
          /\ b_att' = [b_att EXCEPT ![f] = 0]
          /\ b_i' = [b_i EXCEPT ![f] = @ + chunk_size]
          /\ b_pc' = [b_pc EXCEPT ![f] = IF b_i'[f] >= Len(b_cells[f])
                                         THEN "done" ELSE "write"]
          /\ UNCHANGED <<b_error, b_fails_left, sheets_errors>>
       \/ /\ b_fails_left > 0
          /\ b_fails_left' = b_fails_left - 1
          /\ sheets_errors' = sheets_errors + 1
          /\ IF CoreSleeps(b_att[f], DEFAULT_MAX_RETRIES)
             THEN /\ b_att' = [b_att EXCEPT ![f] = @ + 1]
                  /\ UNCHANGED <<b_pc, b_error>>
             ELSE /\ b_pc' = [b_pc EXCEPT ![f] = "raised"]
                  /\ b_error' = [b_error EXCEPT ![f] = "APIError"]
                  /\ UNCHANGED b_att
          /\ UNCHANGED <<b_written, b_i>>
    /\ UNCHANGED <<b_queue, chunk_size, b_cells, b_popped, redis_errors, exceptBatch>>

\* the list as the lead tasks left it: items 1..n in the order of their rpush
InitBatch ==
    /\ InitLedger
    /\ InitWrapper
    /\ EmailIdle
    /\ CycleIdle
    /\ JobsIdle
    /\ \E n \in 0..MaxItems : b_queue = [k \in 1..n |-> k]
    /\ chunk_size \in 1..MaxChunk
    /\ b_fails_left \in 0..MaxWriteFails
    /\ FlushesIdle
    /\ RestIdle

NextBatch ==
    \/ \E f \in Flushes : BatchStart(f)
    \/ \E f \in Flushes : BatchPop(f)
    \/ \E f \in Flushes : BatchWrite(f)

SpecBatch == InitBatch /\ [][NextBatch]_vars

\* -------------------------------------------------------- process_lead_task

\* the runs of process_lead_task are celery tasks: each is a sequence of
\* blocking calls, and the calls of two runs interleave in any order

exceptLead == <<retryVars, emailVars, cycleVars, coreVars, job_runs, c_guard, queueVars,
                chunk_size, b_pc, b_cells, b_popped, b_i, b_att, b_tried, b_written,
                b_error, b_fails_left, redis_errors, sheets_errors, limiterVars,
                healthVars, lastVars>>

\* a call of the store or of redis raises after the retries of with_retry,
\* the handler of lines 52-55 counts it and re-raises
TaskRaises(r) ==
    /\ t_fails_left > 0
    /\ t_fails_left' = t_fails_left - 1
    /\ task_errors' = task_errors + 1
    /\ t_pc' = [t_pc EXCEPT ![r] = "raised"]

\* lines 29-36: the idempotency check has_followup(row_number, today_str)
TaskCheck(r) ==
    /\ t_pc[r] = "idle"
    /\ \/ /\ t_pc' = [t_pc EXCEPT ![r] = IF followup_logs > 0 THEN "skipped"
                                                              ELSE "enqueue"]
          /\ UNCHANGED <<task_errors, t_fails_left>>
       \/ TaskRaises(r)
    /\ UNCHANGED <<b_queue, followup_logs, exceptLead>>

\* the enqueues inside a handler that logs the failure and goes on
TaskEnqueueLenient(r) ==
    /\ t_pc[r] \in {"enqueue", "enqueue2"}
    /\ t_pc' = [t_pc EXCEPT ![r] = IF t_pc[r] = "enqueue" THEN "enqueue2" ELSE "log"]
    /\ \/ /\ b_queue' = Append(b_queue, IF t_pc[r] = "enqueue" THEN "Last Texted"
                                                               ELSE "AI SUMMARY")
          /\ UNCHANGED <<task_errors, t_fails_left>>
       \/ /\ t_fails_left > 0
          /\ t_fails_left' = t_fails_left - 1
          /\ task_errors' = task_errors + 1
          /\ UNCHANGED b_queue
    /\ UNCHANGED <<followup_logs, exceptLead>>

\* lines 39-41: enqueue_update of "Last Texted", then of "AI SUMMARY"
TaskEnqueue(r) ==
    /\ t_pc[r] \in {"enqueue", "enqueue2"}
    /\ \/ /\ b_queue' = Append(b_queue, IF t_pc[r] = "enqueue" THEN "Last Texted"
                                                               ELSE "AI SUMMARY")
          /\ t_pc' = [t_pc EXCEPT ![r] = IF t_pc[r] = "enqueue" THEN "enqueue2"
                                                                ELSE "log"]
          /\ UNCHANGED <<task_errors, t_fails_left>>
       \/ /\ TaskRaises(r)
          /\ UNCHANGED b_queue
    /\ UNCHANGED <<followup_logs, exceptLead>>

\* lines 44-50: log_followup inserts the row
TaskLog(r) ==
    /\ t_pc[r] = "log"
    /\ \/ /\ followup_logs' = followup_logs + 1
          /\ t_pc' = [t_pc EXCEPT ![r] = "done"]
          /\ UNCHANGED <<task_errors, t_fails_left>>
       \/ /\ TaskRaises(r)
          /\ UNCHANGED followup_logs
    /\ UNCHANGED <<b_queue, exceptLead>>

\* the lead was or was not followed up earlier on the date
InitLead ==
    /\ InitLedger
    /\ InitWrapper
    /\ EmailIdle
    /\ CycleIdle
    /\ JobsIdle
    /\ BatchIdle
    /\ LimiterIdle
    /\ HealthIdle
    /\ LastIdle
    /\ t_pc = [r \in Tasks |-> "idle"]
    /\ followup_logs \in 0..1
    /\ task_errors = 0
    /\ t_fails_left \in 0..MaxTaskFails

NextLead ==
    \/ \E r \in Tasks : TaskCheck(r)
    \/ \E r \in Tasks : TaskEnqueue(r)
    \/ \E r \in Tasks : TaskLog(r)

SpecLead == InitLead /\ [][NextLead]_vars

\* ------------------------------------------------------ run_daily_followups

\* the daily run: the list is deleted, one process_lead_task per lead forms
\* the header of a chord whose body is flush_and_summary and whose
\* link_error is handle_chord_error. Celery calls the body of a chord once
\* every header task has returned, and calls link_error instead when a
\* header task raised. The tasks of the run are those of the leads
\* 1..NTask, and the run k calls process_batch as the flush k.

exceptDaily == <<retryVars, emailVars, cycleVars, coreVars, job_runs, c_guard, queueVars,
                 chunk_size, b_pc, b_cells, b_popped, b_i, b_att, b_tried, b_written,
                 b_error, b_fails_left, redis_errors, sheets_errors, limiterVars,
                 healthVars, scoreVars>>

\* the two updates a task enqueues for its lead, in the order of lines 39-41
LeadUpdates(r) == <<<<r, "Last Texted">>, <<r, "AI SUMMARY">>>>

\* run_daily_followups (lines 95-124): redis.delete raises and the run
\* returns; or the list is deleted and get_all_leads raises; or the list is
\* deleted and the chord is sent
RunDailyFollowups ==
    /\ d_pc \in {"idle", "over"}
    /\ d_runs < NFlush
    /\ d_runs' = d_runs + 1
    /\ \E outcome \in {"redis_down", "sheets_down", "chord"} :
          /\ b_queue' = IF outcome = "redis_down" THEN b_queue ELSE <<>>
          /\ d_pc' = IF outcome = "chord" THEN "header" ELSE "over"
    /\ t_pc' = [r \in Tasks |-> "idle"]
    /\ UNCHANGED <<d_logged, followup_logs, task_errors, t_fails_left, exceptDaily>>

\* process_lead_task for the lead r (lines 25-57), start to end: skipped
\* when has_followup finds the row of today; else both updates enqueued and
\* the row logged; or a call raises after n enqueues were made
LeadTask(r) ==
    /\ d_pc = "header"
    /\ t_pc[r] = "idle"
    /\ \/ /\ r \in d_logged
          /\ t_pc' = [t_pc EXCEPT ![r] = "skipped"]
          /\ UNCHANGED <<b_queue, d_logged, followup_logs, task_errors, t_fails_left>>
       \/ /\ r \notin d_logged
          /\ b_queue' = b_queue \o LeadUpdates(r)
          /\ followup_logs' = followup_logs + 1
          /\ d_logged' = d_logged \cup {r}
          /\ t_pc' = [t_pc EXCEPT ![r] = "done"]
          /\ UNCHANGED <<task_errors, t_fails_left>>
       \/ /\ TaskRaises(r)
          /\ \E n \in 0..Len(LeadUpdates(r)) :
                /\ n > 0 => r \notin d_logged
                /\ b_queue' = b_queue \o SubSeq(LeadUpdates(r), 1, n)
          /\ UNCHANGED <<d_logged, followup_logs>>
    /\ UNCHANGED <<d_pc, d_runs, exceptDaily>>

\* every header task returned: the chord calls flush_and_summary
ChordBody ==
    /\ d_pc = "header"
    /\ \A r \in Tasks : t_pc[r] \in {"done", "skipped"}
    /\ d_pc' = "body"
    /\ UNCHANGED <<d_runs, d_logged, b_queue, leadVars, exceptDaily>>

\* the header is complete and a task raised: the chord calls
\* handle_chord_error (lines 86-93), which sends an email
HandleChordError ==
    /\ d_pc = "header"
    /\ \A r \in Tasks : t_pc[r] # "idle"
    /\ \E r \in Tasks : t_pc[r] = "raised"
    /\ d_pc' = "over"
    /\ UNCHANGED <<d_runs, d_logged, b_queue, leadVars, exceptDaily>>

\* flush_and_summary (lines 59-84): process_batch step by step
FlushAndSummary ==
    /\ d_pc = "body"
    /\ \/ BatchStart(d_runs)
       \/ BatchPop(d_runs)
       \/ BatchWrite(d_runs)

\* process_batch returned or raised: the summary or the alert is sent
FlushAndSummaryEnds ==
    /\ d_pc = "body"
    /\ b_pc[d_runs] \in {"done", "raised"}
    /\ d_pc' = "over"
    /\ UNCHANGED <<d_runs, d_logged, b_queue, leadVars, exceptDaily>>

InitDaily ==
    /\ InitLedger
    /\ InitWrapper
    /\ EmailIdle
    /\ CycleIdle
    /\ JobsIdle
    /\ BatchIdle
    /\ LimiterIdle
    /\ HealthIdle
    /\ ScoreIdle
    /\ DailyIdle
    /\ t_pc = [r \in Tasks |-> "idle"]
    /\ followup_logs = 0
    /\ task_errors = 0
    /\ t_fails_left \in 0..MaxTaskFails

NextDaily ==
    \/ RunDailyFollowups
    \/ \E r \in Tasks : LeadTask(r)
    \/ ChordBody
    \/ HandleChordError
    \/ FlushAndSummary
    \/ FlushAndSummaryEnds

SpecDaily == InitDaily /\ [][NextDaily]_vars

\* ---------------------------------------------------------- _send_via_gmail

\* concurrent calls of _send_via_gmail on the one email_service; a step per
\* statement that touches the semaphore or the gateway

exceptLimiter == <<retryVars, emailVars, cycleVars, coreVars, job_runs, c_guard, queueVars,
                   batchVars, leadVars, healthVars, lastVars>>

InFlight == {s \in Senders : rl_pc[s] = "in_flight"}

\* lines 208-212: without a client the call returns at once, with one it
\* comes to `async with self._rate_limiter`
LimiterEnter(s) ==
    /\ rl_pc[s] = "idle"
    /\ \E client \in BOOLEAN :
          rl_pc' = [rl_pc EXCEPT ![s] = IF client THEN "waiting" ELSE "failed"]
    /\ UNCHANGED <<rl_value, exceptLimiter>>

\* entering the block without the semaphore
LimiterAcquireUnbounded(s) ==
    /\ rl_pc[s] = "waiting"
    /\ rl_pc' = [rl_pc EXCEPT ![s] = "in_flight"]
    /\ UNCHANGED <<rl_value, exceptLimiter>>

\* line 212: Semaphore.acquire, which waits while the value is 0
LimiterAcquire(s) ==
    /\ rl_pc[s] = "waiting"
    /\ rl_value > 0
    /\ rl_value' = rl_value - 1
    /\ rl_pc' = [rl_pc EXCEPT ![s] = "in_flight"]
    /\ UNCHANGED exceptLimiter

\* lines 220-237: the gateway answers or raises, the call returns and the
\* block releases the semaphore
LimiterReturn(s) ==
    /\ rl_pc[s] = "in_flight"
    /\ \E ok \in BOOLEAN :
          rl_pc' = [rl_pc EXCEPT ![s] = IF ok THEN "sent" ELSE "failed"]
    /\ rl_value' = rl_value + 1
    /\ UNCHANGED exceptLimiter

InitLimiter ==
    /\ InitLedger
    /\ InitWrapper
    /\ EmailIdle
    /\ CycleIdle
    /\ JobsIdle
    /\ BatchIdle
    /\ LeadIdle
    /\ LimiterIdle
    /\ HealthIdle
    /\ LastIdle

NextLimiter ==
    \/ \E s \in Senders : LimiterEnter(s)
    \/ \E s \in Senders : LimiterAcquire(s)
    \/ \E s \in Senders : LimiterReturn(s)

SpecLimiter == InitLimiter /\ [][NextLimiter]_vars

\* ------------------------------------------------------------ get_email_health

exceptHealth == <<retryVars, emailVars, cycleVars, coreVars, job_runs, c_guard, queueVars,
                  batchVars, leadVars, limiterVars, lastVars>>

\* monitor.py:61-65. total_sent * 0.1 is a float product; for the counts of
\* the model total_failed < total_sent * 0.1 is decided exactly as
\* 10 * total_failed < total_sent
is_healthy(m, queue_size, retry_size) ==
    /\ 10 * m.total_failed < m.total_sent
    /\ queue_size < QUEUE_CAP
    /\ retry_size < RETRY_CAP

\* EmailService._update_metrics, run by the scheduler every minute
UpdateMetrics ==
    /\ current_queue_size' = Len(email_queue)
    /\ current_retry_size' = Len(retry_queue)
    /\ UNCHANGED <<h_report, exceptHealth>>

\* get_email_health (monitor.py:57-102): the status, the failure rate
\* total_failed / (total_sent + 1) as a fraction, and the two sizes
GetEmailHealth ==
    /\ h_report' =
          [status |-> IF is_healthy(metrics, current_queue_size, current_retry_size)
                      THEN "healthy" ELSE "degraded",
           rate_num |-> metrics.total_failed,
           rate_den |-> metrics.total_sent + 1,
           main_size |-> current_queue_size,
           retry_size |-> current_retry_size]
    /\ UNCHANGED <<current_queue_size, current_retry_size, exceptHealth>>

\* the service has sent and failed some emails, its queues are drained, and
\* the sizes in the metrics are the ones of the last _update_metrics: 0, the
\* cap or one below it
InitHealth ==
    /\ InitLedger
    /\ InitWrapper
    /\ hour = 17
    /\ weekday = 0
    /\ gmail_service = FALSE
    /\ email_queue = <<>>
    /\ retry_queue = <<>>
    /\ \E sent \in 0..MaxSent, failed \in 0..MaxFailed :
          metrics = [total_sent |-> sent, total_failed |-> failed, total_retried |-> 0]
    /\ InitProcessors
    /\ gw_left = 0
    /\ gw_down = FALSE
    /\ gw_attempts = [e \in Recipients |-> 0]
    /\ gw_accepted = [e \in Recipients |-> 0]
    /\ call_info = [e \in Emails |-> NoCall]
    /\ CycleIdle
    /\ JobsIdle
    /\ BatchIdle
    /\ LeadIdle
    /\ LimiterIdle
    /\ LastIdle
    /\ current_queue_size \in {0, QUEUE_CAP - 1, QUEUE_CAP}
    /\ current_retry_size \in {0, RETRY_CAP - 1, RETRY_CAP}
    /\ h_report = NoReport

NextHealth == UpdateMetrics \/ GetEmailHealth

SpecHealth == InitHealth /\ [][NextHealth]_vars

\* ------------------------------------------------------------ PriorityScorer

\* scores are in ten-thousandths (compute rounds to 4 places); the recency
\* sub-score is kept as a number of PRIORITY_RECENCY_HALF_LIFE_DAYS-ths and
\* the engagement sub-score as a fraction

exceptScore == <<retryVars, emailVars, cycleVars, coreVars, job_runs, c_guard, queueVars,
                 batchVars, leadVars, limiterVars, healthVars, dailyVars>>

\* (utcnow() - last_contact).days for the leads of the model: a contact in
\* the future, today, inside the half life, at it and beyond it
ContactDays == {-7, -1, 0, 1, 6, 7, 8}

\* lead.metadata.classification
Classifications == {"hot", "warm", "cold", "unknown"}

\* settings.PRIORITY_CLASS_SCORES (config_manager.py:96-101)
PRIORITY_CLASS_SCORES == [hot |-> 10000, warm |-> 7000, cold |-> 3000, default |-> 5000]

\* what the call of line 45 hands to compute: the store client of
\* supabase_client.py is async, so the call not awaited gives a coroutine
\* object; a client with plain methods gives the list of rows
StoreAnswers == {"coroutine", "list"}

\* _recency_score: max(0.0, 1.0 - days / half_life), in half_life-ths
recency_score(days) ==
    IF PRIORITY_RECENCY_HALF_LIFE_DAYS - days > 0
    THEN PRIORITY_RECENCY_HALF_LIFE_DAYS - days ELSE 0

\* _engagement_score: inbound / total over the rows in the window, 0.0
\* when there is none
engagement_score(inbound, total) ==
    IF total # 0 THEN [num |-> inbound, den |-> total] ELSE [num |-> 0, den |-> 1]

\* _classification_score: the score of the class, of "default" when the
\* class is not a key
classification_score(cls) ==
    IF cls \in DOMAIN PRIORITY_CLASS_SCORES THEN PRIORITY_CLASS_SCORES[cls]
    ELSE PRIORITY_CLASS_SCORES["default"]

\* lines 46-50: the days the recency is computed from; for a lead with no
\* row last_ts is utcnow() less the half life, that is half_life days
last_days(lead) ==
    IF lead.contacted THEN lead.days ELSE PRIORITY_RECENCY_HALF_LIFE_DAYS

\* lines 55-60: the weighted sum, rounded to 4 places
weighted_score(r_num, e, c) ==
    LET den == PRIORITY_RECENCY_HALF_LIFE_DAYS * e.den
        num == PRIORITY_RECENCY_WEIGHT * r_num * e.den
               + PRIORITY_ENGAGEMENT_WEIGHT * e.num * PRIORITY_RECENCY_HALF_LIFE_DAYS
               + ((PRIORITY_CLASS_WEIGHT * c) \div 10000) * den
    IN (2 * num + den) \div (2 * den)

\* compute over what the store call handed back: a coroutine object is
\* truthy and not subscriptable, recent[0] raises TypeError (line 47)
compute_with(lead, recent) ==
    IF recent = "coroutine"
    THEN [NoScore EXCEPT !.raises = TRUE]
    ELSE LET r == recency_score(last_days(lead))
             e == engagement_score(lead.inbound, lead.total)
             c == classification_score(lead.cls)
         IN [raises |-> FALSE, r_num |-> r, e_num |-> e.num, e_den |-> e.den, c |-> c,
             score |-> weighted_score(r, e, c)]

\* priority_scorer.compute(lead) is called
ComputeScore ==
    /\ p_pc = "idle"
    /\ p_out' = compute_with(p_lead, p_recent)
    /\ p_pc' = "done"
    /\ UNCHANGED <<p_lead, p_recent, exceptScore>>

\* the caller scores another lead
NextLeadToScore ==
    /\ p_pc = "done"
    /\ p_pc' = "idle"
    /\ p_out' = NoScore
    /\ \E d \in ContactDays, contacted \in BOOLEAN, total \in 0..MaxMessages,
          cls \in Classifications :
          \E inbound \in 0..total :
              p_lead' = [days |-> IF contacted THEN d ELSE -1, contacted |-> contacted,
                         inbound |-> inbound, total |-> total, cls |-> cls]
    /\ UNCHANGED <<p_recent, exceptScore>>

InitScore ==
    /\ InitLedger
    /\ InitWrapper
    /\ EmailIdle
    /\ CycleIdle
    /\ JobsIdle
    /\ BatchIdle
    /\ LeadIdle
    /\ LimiterIdle
    /\ HealthIdle
    /\ DailyIdle
    /\ p_pc = "idle"
    /\ p_lead = [NoLead EXCEPT !.cls = "unknown"]
    /\ p_recent \in StoreAnswers
    /\ p_out = NoScore

NextScore == ComputeScore \/ NextLeadToScore

SpecScore == InitScore /\ [][NextScore]_vars

\* ------------------------------------------------ claims on the wrapper

Count(seq, x) == Cardinality({k \in DOMAIN seq : seq[k] = x})

\* what one invocation added to its job's ledger entry, read as the tests
\* read it: get_stats() after the call against get_stats() before it
RetriesAdded(i) == w_end[i].retry_counts[w_job[i]] - w_base[i].retry_counts[w_job[i]]

FailuresAdded(i) == w_end[i].failure_counts[w_job[i]] - w_base[i].failure_counts[w_job[i]]

\* C5: an operation that fails k < max_retries times and then succeeds is
\* returned to the caller with its own result (the wrapper does not give up
\* while fewer than max_retries attempts have failed), and the invocation
\* adds exactly k retries and no failure to the job's ledger entry.
C5_RetryThenSuccess ==
    \A i \in Invs :
        /\ w_pc[i] = "raised" => Len(w_errs[i]) >= w_max[i]
        /\ w_pc[i] = "returned" =>
              /\ Len(w_errs[i]) < w_max[i]
              /\ w_result[i] = w_value[i]
              /\ RetriesAdded(i) = Len(w_errs[i])
              /\ FailuresAdded(i) = 0

C5_Witness ==
    \E i \in Invs :
        /\ w_pc[i] = "returned"
        /\ w_max[i] = 3
        /\ Len(w_errs[i]) = 2
        /\ w_result[i] = "True"
        /\ w_base[i].retry_counts[w_job[i]] > 0

C7_ExactlyOneOutcome ==
    \A i \in Invs :
        Finished(i) =>
            \/ w_pc[i] = "returned" /\ FailuresAdded(i) = 0
            \/ w_pc[i] = "raised" /\ FailuresAdded(i) = 1

\* C8: an invocation of an always-failing operation wrapped with
\* max_retries = n adds n retries and 1 failure to the job's ledger entry
\* (the ledger at the call is what the earlier invocations left, so r
\* invocations give r * n and r).
C8_AlwaysFailingCounts ==
    \A i \in Invs :
        (w_pc[i] = "raised" /\ w_errs[i] # <<>>) =>
            /\ RetriesAdded(i) = w_max[i]
            /\ FailuresAdded(i) = 1

\* C10: every attempt after the first follows a backoff sleep, which follows
\* the record of the retry in the ledger.
C10_BackoffBeforeNextAttempt ==
    \A i \in Invs :
        \A k \in DOMAIN w_trace[i] :
            (w_trace[i][k] = "attempt" /\ k > 2) =>
                /\ w_trace[i][k - 1] = "sleep"
                /\ w_trace[i][k - 2] = "log_retry"

\* ------------------------------------------- claims on the email service

InPrimary(e) == \E k \in DOMAIN email_queue : email_queue[k].to = e

RetryEntriesOf(e) == {k \in DOMAIN retry_queue : retry_queue[k].email_data.to = e}

\* C1: the gateway accepts every email at most once, however the two
\* primary-queue processors, the retry processor and direct send_email
\* calls interleave.
C1_DeliveredAtMostOnce == \A e \in Emails : gw_accepted[e] <= 1

\* C2: no email is in the primary queue and in the retry queue at once, and
\* no email has more than one entry in the retry queue.
C2_AtMostOnePlace ==
    \A e \in Emails :
        /\ ~(InPrimary(e) /\ RetryEntriesOf(e) # {})
        /\ Cardinality(RetryEntriesOf(e)) <= 1

\* C9: a direct send_email call that reaches a gateway which fails k times
\* (k < max_retries) and then accepts returns True after k + 1 gateway
\* attempts, the email is sent, and the ledger shows k retries and no
\* failure for the job send_email.
C9_SendEmailRetriesInternally ==
    \A e \in Emails :
        (call_info[e].made /\ call_info[e].sending
            /\ call_info[e].k < EmailMaxRetries) =>
            /\ call_info[e].result = "True"
            /\ call_info[e].attempts = call_info[e].k + 1
            /\ gw_accepted[e] >= 1
            /\ retry_counts["send_email"] >= call_info[e].k
            /\ failure_counts["send_email"] = 0

\* -------------------------------------- claims on the orchestration cycle

\* C3: a dispatch that raises does not make run_followups raise, and a cycle
\* that completed normally has seen every dispatch it created finish.
C3_DispatchFailureIsolated ==
    /\ \A l \in Range(c_tasks) : w_pc[l] = "raised" => c_pc # "raised"
    /\ c_pc = "done" => \A l \in Range(c_tasks) : Finished(l)

\* C4: when the fetch of the leads fails in the store, run_followups raises
\* and creates no dispatch; it never completes normally on an empty list.
C4_FetchFailureRaises ==
    c_fetch \in {"query_error", "client_error"} =>
        /\ c_pc = "raised"
        /\ c_tasks = <<>>

\* ------------------------------------------------- claims on with_retry

\* C11: when an operation under with_retry has exhausted its retries, the
\* RetryLogger ledger holds a terminal failure for it.
C11_TerminalFailureInLedger ==
    (cr_pc = "raised" /\ cr_last_error # "None") =>
        \E j \in Jobs : failure_counts[j] > 0 /\ last_failures[j] # NoFailure

\* ------------------------------------ claims on the retry queue of emails

\* C12: the gateway is asked to send any one email at most 1 + max_retries
\* times over the life of the email.
C12_BoundedGatewayAttempts ==
    \A e \in Emails : gw_attempts[e] <= 1 + EmailMaxRetries

\* the step is an iteration of _process_retry_queue whose send fails and
\* brings the retry_count of the entry it iterates to max_retries
RetryExhaustedStep ==
    /\ rp_pc = "run"
    /\ rp_k' # rp_k
    /\ LET retry_data == rp_snapshot[rp_k]
           r == send_email(EState, retry_data.email_data,
                           retry_data.email_data.schedule,
                           retry_data.email_data.retry_count)
       IN /\ ~r.ret
          /\ retry_data.retry_count + 1 = EmailMaxRetries

\* C13: a failed retry that brings the retry_count of an entry to max_retries
\* removes the entry and counts one permanent failure: total_failed grows by
\* exactly 1 and no entry stays in the retry queue with its count at the limit.
C13_ExhaustedCountedOnce ==
    [][RetryExhaustedStep =>
          /\ metrics'.total_failed = metrics.total_failed + 1
          /\ \A k \in DOMAIN retry_queue' :
                retry_queue'[k].retry_count < EmailMaxRetries]_vars

\* ---------------------------------------------- claims on the job triggers

\* C14: no job has two runs in progress at once: a trigger that arrives
\* during a run does not start a second, overlapping run.
C14_NoOverlappingRuns ==
    \A job \in FollowupJobs : Cardinality(RunsInProgress(job)) <= 1

\* ------------------------------------------------ claims on the throttle

\* C15: a lead the gateway has accepted a follow-up for is not dispatched
\* to by a cycle that starts less than FOLLOWUP_THROTTLE_SECONDS later (in
\* SpecThrottle no time passes between the cycles).
C15_ContactThrottlesNextCycle ==
    [][(c_pc = "eval" /\ c_tasks' # c_tasks) =>
          gw_accepted[c_leads[c_idx]] = 0]_vars

C17_OneDispatchPerFreshLead ==
    (/\ c_pc \in {"done", "join"}
     /\ c_fetch = "rows"
     /\ \A l \in Range(c_leads) :
           /\ last_contact[l] \in {-1, FOLLOWUP_THROTTLE_SECONDS - 1}
           /\ c_guard[l].went # "failed"
           /\ c_guard[l].last = last_contact[l])
    => /\ Len(c_tasks) = Cardinality({l \in Range(c_leads) : last_contact[l] = -1})
       /\ \A l \in Range(c_leads) : last_contact[l] = -1 => l \in Range(c_tasks)

\* ------------------------------------------ claims on the follow-up queue

\* C18: a follow-up that send_followup accepted outside business hours (it
\* returned True without any gateway call) is retained: the queue that
\* process_followup_queue drains, the queued rows of the followups table,
\* holds a row for its lead.
C18_QueuedIsRetained ==
    \A l \in Leads :
        (w_pc[l] = "returned" /\ w_value[l] = "True" /\ gw_attempts[l] = 0)
            => followups[l] = "queued"

\* C20: a follow-up dispatch calls the gateway only inside the business
\* window: at an hour of the follow-up window and on a weekday, Monday to
\* Friday.
C20_GatewayOnlyInWindow ==
    [][\A l \in Leads :
          gw_attempts'[l] > gw_attempts[l] =>
             /\ FOLLOWUP_START_HOUR <= hour /\ hour < FOLLOWUP_END_HOUR
             /\ weekday < 5]_vars

\* --------------------------------------------------- claims on send_email

\* C19: send_email called with schedule=True outside the business window
\* (before the start hour, after the end hour, or on a Saturday or Sunday)
\* appends exactly one entry for that email to the primary queue, makes no
\* gateway call, leaves the retry queue unchanged and returns True.
C19_QueuedOutsideWindow ==
    [][\A e \in Emails, body_ok \in BOOLEAN :
          (/\ hour < EMAIL_START_HOUR \/ hour > EMAIL_END_HOUR \/ weekday >= 5
           /\ ~call_info[e].made
           /\ SendEmailWith(e, TRUE, body_ok))
          => /\ Len(email_queue') = Len(email_queue) + 1
             /\ SubSeq(email_queue', 1, Len(email_queue)) = email_queue
             /\ email_queue'[Len(email_queue')].to = e
             /\ gw_attempts' = gw_attempts
             /\ gw_accepted' = gw_accepted
             /\ retry_queue' = retry_queue
             /\ call_info'[e].result = "True"]_vars

\* with the gateway client installed, a call made on a Saturday has returned
\* True, the gateway was not called and the email is in the primary queue
C19_Witness ==
    \E e \in Emails :
        /\ weekday = 5
        /\ gmail_service
        /\ call_info[e].made
        /\ call_info[e].result = "True"
        /\ call_info[e].attempts = 0
        /\ gw_attempts[e] = 0
        /\ Len(email_queue) = 1
        /\ email_queue[1].to = e
        /\ retry_queue = <<>>

\* ------------------------------------- claims on the primary queue processor

\* the dicts of a queue addressed to e that carry a body or a template
Sendable(queue, e) ==
    Cardinality({k \in DOMAIN queue : queue[k].to = e /\ queue[k].body_ok})

\* C21: one run of _process_email_queue hands every email that is in the
\* primary queue when the run starts to send_email exactly once (each call
\* counts in exactly one of total_sent, total_failed, total_retried, and with
\* a gateway client every email that has a body makes exactly one gateway
\* call); when every send succeeds the primary queue is empty at the end.
C21_QueueRunAttemptsAll ==
    [][eq_runs' # eq_runs =>
          /\ metrics'.total_sent + metrics'.total_failed + metrics'.total_retried
                = metrics.total_sent + metrics.total_failed + metrics.total_retried
                  + Len(email_queue)
          /\ \A e \in Recipients :
                gw_attempts'[e] - gw_attempts[e] =
                   IF gmail_service THEN Sendable(email_queue, e) ELSE 0
          /\ (metrics'.total_sent - metrics.total_sent = Len(email_queue))
                => email_queue' = <<>>]_vars

\* a run over two queued emails has sent both and left the queue empty
C21_Witness ==
    /\ eq_runs = 1
    /\ metrics.total_sent = 2
    /\ email_queue = <<>>
    /\ retry_queue = <<>>

\* ------------------------------------------------- claims on process_batch

RECURSIVE Concat(_)
Concat(chunks) == IF chunks = <<>> THEN <<>> ELSE Head(chunks) \o Concat(Tail(chunks))

\* C22: a run of process_batch that dequeued n items, with chunk size c and
\* no failing write, has issued exactly ceil(n / c) chunk writes: every chunk
\* has c items except a last one of n mod c items, together they hold every
\* dequeued item exactly once in FIFO order, and over an empty queue no
\* write is issued.
C22_ChunksOfFlush ==
    \A f \in Flushes :
        (b_pc[f] = "done" /\ sheets_errors = 0) =>
            LET n == Len(b_popped[f])
                c == chunk_size
                w == b_written[f]
            IN /\ Len(w) * c >= n /\ (Len(w) - 1) * c < n
               /\ Cardinality(b_tried[f]) = Len(w)
               /\ \A k \in DOMAIN w :
                     Len(w[k]) = IF k < Len(w) \/ n % c = 0 THEN c ELSE n % c
               /\ Concat(w) = b_popped[f]
               /\ n = 0 => (w = <<>> /\ b_tried[f] = {})

\* three items, chunk size 2: one run wrote the chunks <<1, 2>> and <<3>>
C22_Witness ==
    \E f \in Flushes :
        /\ b_pc[f] = "done"
        /\ sheets_errors = 0
        /\ chunk_size = 2
        /\ b_written[f] = <<(<<1, 2>>), (<<3>>)>>

\* the offsets range(0, len(cell_list), chunk_size) of a run
ChunkOffsets(f) == {i \in 0..Len(b_cells[f]) : i < Len(b_cells[f]) /\ i % chunk_size = 0}

\* C23: when a run of process_batch has drained the queue and is over, it
\* has attempted the write of every chunk of the items it dequeued, also
\* when the write of one chunk failed after its retries.
C23_RemainingChunksAttempted ==
    \A f \in Flushes :
        (b_pc[f] \in {"done", "raised"} /\ b_error[f] \in {"None", "APIError"})
            => ChunkOffsets(f) \subseteq b_tried[f]

\* the items written by the runs, with the run that wrote them
WrittenBy(f) == Range(Concat(b_written[f]))

C25_FailureRaisesNothingRequeued ==
    [][/\ \A f \in Flushes :
             (\/ /\ BatchWrite(f)
                 /\ b_att[f] = DEFAULT_MAX_RETRIES - 1
                 /\ sheets_errors' = sheets_errors + 1
              \/ /\ BatchPop(f)
                 /\ b_queue' # b_queue
                 /\ redis_errors' = redis_errors + 1)
             => /\ b_pc'[f] = "raised"
                /\ b_error'[f] # "None"
                /\ Len(b_queue') <= Len(b_queue)
       /\ \A f \in Flushes :
             b_pc'[f] = "raised" => Range(b_popped'[f]) \cap Range(b_queue') = {}]_vars

\* a run raised after the third failed write of its first chunk: it had
\* dequeued all three items, wrote none, and the list is empty
C25_Witness ==
    \E f \in Flushes :
        /\ b_pc[f] = "raised"
        /\ b_error[f] = "APIError"
        /\ Len(b_popped[f]) = 3
        /\ b_written[f] = <<>>
        /\ b_queue = <<>>
        /\ sheets_errors = 3

\* ---------------------------------------------- claims on process_lead_task

\* C26: for the lead and the date, however the runs of process_lead_task
\* interleave, each of the two sheet updates is enqueued at most once and
\* at most one row is logged.
C26_LeadProcessedOnce ==
    /\ Count(b_queue, "Last Texted") <= 1
    /\ Count(b_queue, "AI SUMMARY") <= 1
    /\ followup_logs <= 1

\* ------------------------------------------------ claims on the rate limiter

\* C27: at every moment at most RATE_LIMIT_PER_MINUTE calls of the gateway
\* are in flight, whatever the number of concurrent senders and the outcome
\* of the calls.
C27_InFlightBounded == Cardinality(InFlight) <= RATE_LIMIT_PER_MINUTE

\* the limit is reached while another sender waits for the semaphore
C27_Witness ==
    /\ Cardinality(InFlight) = RATE_LIMIT_PER_MINUTE
    /\ rl_value = 0
    /\ \E s \in Senders : rl_pc[s] = "waiting"

\* ------------------------------------ claims on concurrent wrapped operations

\* the invocation raised the error of its last allowed attempt
TerminalFailure(i) == w_pc[i] = "raised" /\ w_errs[i] # <<>>

\* failures of the operation after which the invocation went on to retry
RetriedFailures(i) == Len(w_errs[i]) - IF TerminalFailure(i) THEN 1 ELSE 0

RECURSIVE SumRetried(_, _)
SumRetried(S, j) ==
    IF S = {} THEN 0
    ELSE LET i == CHOOSE x \in S : TRUE
         IN (IF w_job[i] = j THEN RetriedFailures(i) ELSE 0) + SumRetried(S \ {i}, j)

\* C28: however the concurrent invocations interleave at their awaits, the
\* retry count of a job is the sum of the retried failures of its
\* invocations and its failure count is the number of its invocations that
\* ended in terminal failure.
C28_NoLostIncrement ==
    \A j \in Jobs :
        /\ retry_counts[j] = SumRetried(Invs, j)
        /\ failure_counts[j] = Cardinality({i \in Invs : w_job[i] = j /\ TerminalFailure(i)})

\* two invocations of the same job are both suspended in an attempt, each
\* after a retry of its own, and the job's retry count has reached 3
C28_Witness ==
    /\ w_pc[1] = "await" /\ w_pc[2] = "await"
    /\ w_job[1] = w_job[2]
    /\ w_errs[1] # <<>> /\ w_errs[2] # <<>>
    /\ retry_counts[w_job[1]] >= 3

\* ------------------------------------------- claims on the health endpoint

\* C29: an answer of the email health endpoint has status healthy exactly
\* when the failure rate in the answer is below 10% and the two queue sizes
\* in it are below their caps, and degraded otherwise.
C29_HealthyIffReported ==
    h_report # NoReport =>
        /\ h_report.status \in {"healthy", "degraded"}
        /\ h_report.status = "healthy" <=>
              /\ 10 * h_report.rate_num < h_report.rate_den
              /\ h_report.main_size < QUEUE_CAP
              /\ h_report.retry_size < RETRY_CAP

\* ------------------------------------------ claims on the loop over the leads

\* C30: an iteration of the loop of run_followups in which the conversation
\* query or the scorer raises skips its lead and nothing else: the cycle does
\* not raise, the tasks created before stay, the loop goes on to the next
\* lead, an iteration that finds its lead eligible creates its task, and
\* when the loop is over every lead was evaluated.
C30_FailureSkipsOneLead ==
    [][\A conv \in StoreOutcomes, raises \in BOOLEAN, score \in Scores :
          (c_pc = "eval" /\ EvalWith(conv, raises, score)) =>
              LET lead == c_leads[c_idx]
                  failed == conv = "client_error" \/ (c_guard'[lead].went = "scorer" /\ raises)
                  eligible == /\ conv # "client_error"
                              /\ ~raises
                              /\ c_guard'[lead].went = "scorer"
                              /\ score >= FOLLOWUP_MIN_SCORE
              IN /\ c_error' = "None"
                 /\ c_pc' = IF c_idx < Len(c_leads) THEN "eval"
                            ELSE IF c_tasks' = <<>> THEN "done" ELSE "join"
                 /\ c_idx < Len(c_leads) => c_idx' = c_idx + 1
                 /\ failed => c_tasks' = c_tasks
                 /\ eligible => c_tasks' = Append(c_tasks, lead)
                 /\ c_pc' \in {"done", "join"} =>
                        \A l \in Range(c_leads) : c_guard'[l] # NotEvaluated]_vars

\* the conversation query of the first lead raised, and the second lead,
\* evaluated after it, has its dispatch task
C30_Witness ==
    /\ c_pc = "join"
    /\ Len(c_leads) = 2
    /\ c_guard[c_leads[1]].went = "failed"
    /\ c_guard[c_leads[2]].went = "scorer"
    /\ c_tasks = <<c_leads[2]>>

\* ------------------------------------------------ claims on PriorityScorer

\* C31: for a lead with no conversation row compute uses the recency
\* sub-score 1.0, whatever its engagement and classification are.
C31_NeverContactedRecency ==
    (p_pc = "done" /\ ~p_lead.contacted) =>
        /\ ~p_out.raises
        /\ p_out.r_num = PRIORITY_RECENCY_HALF_LIFE_DAYS

\* C32: the score compute returned for a lead is not above the score it
\* returns for the same lead with more days since the last contact.
C32_ScoreGrowsWithAge ==
    (p_pc = "done" /\ p_lead.contacted /\ ~p_out.raises) =>
        \A d \in ContactDays :
            d > p_lead.days =>
                compute_with([p_lead EXCEPT !.days = d], p_recent).score >= p_out.score

\* C33: when compute returns, the three sub-scores and the score are in
\* [0, 1], also for a lead whose last contact is later than now.
C33_ScoresInUnitInterval ==
    (p_pc = "done" /\ ~p_out.raises) =>
        /\ 0 <= p_out.r_num /\ p_out.r_num <= PRIORITY_RECENCY_HALF_LIFE_DAYS
        /\ 0 <= p_out.e_num /\ p_out.e_num <= p_out.e_den
        /\ 0 <= p_out.c /\ p_out.c <= 10000
        /\ 0 <= p_out.score /\ p_out.score <= 10000

\* C34: when the scoring fails inside compute, compute does not raise and
\* returns the neutral score 0.5.
C34_NeutralScoreOnFailure ==
    (p_pc = "done" /\ p_recent = "coroutine") =>
        /\ ~p_out.raises
        /\ p_out.score = 5000

\* --------------------------------------- claims on the attempts of with_retry

\* C35: an invocation under with_retry with max_retries >= 1 whose operation
\* failed on every attempt has called it max_retries times, has incremented
\* the error counter once per failure, has slept max_retries - 1 times, each
\* sleep followed by the next attempt and none after the last failure, and
\* raises the error of the last attempt.
C35_AlwaysFailingUnderWithRetry ==
    (cr_pc = "raised" /\ cr_max >= 1) =>
        /\ Count(cr_trace, "attempt") = cr_max
        /\ Count(cr_trace, "fail") = cr_max
        /\ Count(cr_trace, "inc") = cr_max
        /\ Count(cr_trace, "sleep") = cr_max - 1
        /\ \A k \in DOMAIN cr_trace :
              cr_trace[k] = "sleep" => (k < Len(cr_trace) /\ cr_trace[k + 1] = "attempt")
        /\ cr_trace[Len(cr_trace)] = "raise"
        /\ cr_trace[Len(cr_trace) - 1] = "inc"
        /\ cr_out = cr_last_error
        /\ cr_out \in Errors
        /\ cr_calls = 1 => error_counter = cr_max

\* a second invocation with max_retries = 3 failed three times, slept
\* twice and raised
C35_Witness ==
    /\ cr_pc = "raised"
    /\ cr_max = 3
    /\ cr_calls = 2
    /\ Count(cr_trace, "sleep") = 2
    /\ error_counter >= 4

\* ------------------------------------- claims on the marking of follow-ups

\* C36: a row of the followups table is marked sent only if the gateway
\* accepted a send for its lead during the run of process_followup_queue,
\* also when the window closes after the run has started.
C36_SentOnlyAfterGatewaySend ==
    \A l \in Leads : followups[l] = "sent" => gw_accepted[l] > 0

\* the follow-ups that are queued and not marked sent: the queued rows
QueuedCount == Cardinality({l \in Leads : followups[l] = "queued"})

\* C40: metrics['queued_followups'] moves with the number of follow-ups
\* that are queued and not yet marked sent, one up when one is queued and
\* one down when one is marked sent, and is never negative.
C40_QueuedMetricTracksQueue ==
    [][/\ f_metrics'.queued_followups - f_metrics.queued_followups
             = QueuedCount' - QueuedCount
       /\ f_metrics'.queued_followups >= 0]_vars

\* ------------------------------------- claims on the order of a lead task

\* C39: a run of process_lead_task writes its log row only from the point
\* after both enqueues, where both updates of the lead are in the list; a
\* run whose enqueue failed after its retries ends raised, counted in
\* task_errors, and writes no row.
C39_LogAfterBothEnqueues ==
    [][\A r \in Tasks :
          t_pc'[r] # t_pc[r] =>
              /\ followup_logs' # followup_logs =>
                     /\ t_pc[r] = "log" /\ t_pc'[r] = "done"
                     /\ followup_logs' = followup_logs + 1
                     /\ Count(b_queue, "Last Texted") >= 1
                     /\ Count(b_queue, "AI SUMMARY") >= 1
              /\ t_pc'[r] = "log" => (t_pc[r] = "enqueue2" /\ b_queue' # b_queue)
              /\ (t_pc[r] \in {"enqueue", "enqueue2"} /\ b_queue' = b_queue) =>
                     /\ t_pc'[r] = "raised"
                     /\ followup_logs' = followup_logs
                     /\ task_errors' = task_errors + 1
              /\ t_pc[r] # "raised"]_vars

\* a run raised at its second enqueue: one update is in the list, no row
\* is logged
C39_Witness ==
    \E r \in Tasks :
        /\ t_pc[r] = "raised"
        /\ b_queue = <<"Last Texted">>
        /\ followup_logs = 0
        /\ task_errors = 1


\* C37: while the retry job keeps firing, a non-empty retry queue becomes
\* empty again: every entry is removed after a successful retry or after
\* _max_retries failed ones, also when the gateway stays down
C37_RetryQueueDrains == (retry_queue # <<>>) ~> (retry_queue = <<>>)

\* the gateway stayed down and the queue was emptied by dropping entries
C37_Witness ==
    /\ gw_down
    /\ gmail_service
    /\ retry_queue = <<>>
    /\ rp_pc = "idle"
    /\ rp_runs >= EmailMaxRetries
    /\ metrics.total_retried > 1


\* C38: the updates enqueued by a task that completed in a daily run are
\* written by the flush of that run: when the next run deletes the list, no
\* update of a completed task is still in it
C38_CompletedUpdatesFlushed ==
    [][(d_runs' # d_runs /\ b_queue' # b_queue) =>
           \A k \in DOMAIN b_queue : t_pc[b_queue[k][1]] # "done"]_vars

====
